---- MODULE Spec2Model ----
(***************************************************************************)
(* Model of the blueprinter backend: the plan-generation pipeline          *)
(* (app/langgraph/graph.py, app/openai_client.py), the JSON patch engine   *)
(* (app/utils/json_patch.py) and the plan routes (app/api/routes/plan.py,  *)
(* app/api/routes/plan_patch.py, app/api/routes/ask.py) with their stores. *)
(*                                                                         *)
(* A Python str is a sequence of characters; a character is a TLA+ string  *)
(* (a fixed piece of text such as "Development Plan: " counts as one).     *)
(* A JSON value is a tagged record [t |-> tag, v |-> payload].             *)
(***************************************************************************)
EXTENDS Integers, Sequences, FiniteSets, TLC

VARIABLES
    \* ---- style adapter applied to one file content (SpecStyle)
    content,      \* the file content handed to the adapter
    tokens,       \* the style tokens in force
    once,         \* the content after one application
    twice,        \* the content after a second application
    spc,          \* "new" | "once" | "twice"
    \* ---- one generate_plan call (SpecPipe)
    pctx,         \* the PlanGenerationState threaded through the nodes
    pstage,       \* the node to run next, then "end", then "done"
    presult,      \* what generate_plan gave its caller
    pfirst,       \* the first error a node set in this call, "" when none did
    pcalls,       \* the nodes entered and the collaborator calls made, in order
    \* ---- the plan routes and their stores (Spec)
    local_plans,  \* local_storage: the plans table of the SQLite file, id -> plan_json
    supa_plans,   \* supabase_client: the hosted plans table, id -> plan_json
    revisions,    \* the hosted plan_revisions table, in insertion order
    issued,       \* the planIds that create responses have carried, in order
    req,          \* the request answered last
    resp,         \* the answer to it
    calls,        \* the calls its handler made to the pipeline and the stores, in order
    nreq,         \* the number of requests answered
    messages,     \* the hosted plan_messages table, in insertion order
    proposed,     \* the PatchResponse the last ask request was answered with
    \* ---- validate_patch_path applied to one pointer (SpecPath)
    vpath,        \* the pointer, as the sequence of its reference tokens
    vok,          \* what validate_patch_path returned for it
    vpc,          \* "new" | "checked"
    \* ---- apply_patch applied to one document and one batch (SpecApply)
    adoc,         \* the document handed to apply_patch
    abatch,       \* the batch of operations
    aout,         \* what apply_patch gave: the patched document or an exception
    apc,          \* "new" | "applied"
    \* ---- two apply_plan_patch requests for one plan, await by await (SpecRace)
    rstore,       \* the plan_json of the plan's row in the hosted plans table
    rrevs,        \* the plan_revisions rows, in insertion order
    rreq,         \* request -> its patch and messageId
    rloaded,      \* request -> the plan_json its get_plan returned
    rpc,          \* request -> "get_plan" | "update_plan" | "revision" | "done"
    rresp,        \* request -> the status it was answered with, 0 before
    \* ---- two generate_plan calls, node by node (SpecTwo)
    tctx,         \* context -> the PlanGenerationState
    tstage,       \* call -> the node it runs next, then "end", then "done"
    treplies,     \* call -> what its collaborators answer
    tres,         \* call -> what generate_plan gave its caller
    \* ---- gpt5_plan applied to one completion (SpecSynth)
    gpattern,     \* the pattern handed to gpt5_plan
    greply,       \* the completion it gets
    gout,         \* what it gave: a PlanJSON or an exception
    gpc,          \* "new" | "done"
    \* ---- the build's setting
    plan_mode     \* PLAN_MODE of routes/plan.py

styleVars == <<content, tokens, once, twice, spc>>
pipeVars == <<pctx, pstage, presult, pfirst, pcalls>>
svcVars == <<local_plans, supa_plans, revisions, issued, req, resp, calls, nreq,
             messages, proposed>>
pathVars == <<vpath, vok, vpc>>
applyVars == <<adoc, abatch, aout, apc>>
raceVars == <<rstore, rrevs, rreq, rloaded, rpc, rresp>>
twoVars == <<tctx, tstage, treplies, tres>>
synthVars == <<gpattern, greply, gout, gpc>>
modeVars == <<plan_mode>>

\* what the actions of one specification leave alone
notStyle == <<pipeVars, svcVars, pathVars, applyVars, raceVars, twoVars, synthVars, modeVars>>
notPipe == <<styleVars, svcVars, pathVars, applyVars, raceVars, twoVars, synthVars, modeVars>>
notSvc == <<styleVars, pipeVars, pathVars, applyVars, raceVars, twoVars, synthVars, modeVars>>
notPath == <<styleVars, pipeVars, svcVars, applyVars, raceVars, twoVars, synthVars, modeVars>>
notApply == <<styleVars, pipeVars, svcVars, pathVars, raceVars, twoVars, synthVars, modeVars>>
notTwo == <<styleVars, pipeVars, svcVars, pathVars, applyVars, raceVars, synthVars, modeVars>>
notSynth == <<styleVars, pipeVars, svcVars, pathVars, applyVars, raceVars, twoVars, modeVars>>
notRace == <<styleVars, pipeVars, svcVars, pathVars, applyVars, twoVars, synthVars, modeVars>>

(***************************************************************************)
(* Bounds                                                                  *)
(***************************************************************************)
MaxLen == 3          \* longest file content enumerated for the style adapter
MaxIndent == 2       \* largest indent_size enumerated
MaxReq == 2          \* requests answered in one run of the service
MaxTokens == 4       \* most reference tokens in a pointer handed to validate_patch_path
MaxOps == 2          \* most operations in a batch handed to apply_patch

(***************************************************************************)
(* JSON values                                                             *)
(***************************************************************************)
JS(s) == [t |-> "str", v |-> s]
JL(l) == [t |-> "list", v |-> l]
JO(f) == [t |-> "obj", v |-> f]
JNum(n) == [t |-> "num", v |-> n]
JBool(b) == [t |-> "bool", v |-> b]
JNull == [t |-> "null", v |-> <<>>]

IsStr(j) == j.t = "str"
IsList(j) == j.t = "list"
IsObj(j) == j.t = "obj"

\* Python truthiness of a JSON value
Truthy(j) ==
    CASE j.t = "null" -> FALSE
      [] j.t = "bool" -> j.v
      [] j.t = "num" -> j.v # 0
      [] j.t = "str" -> Len(j.v) > 0
      [] j.t = "list" -> Len(j.v) > 0
      [] OTHER -> DOMAIN j.v # {}

\* `k in obj`
Has(o, k) == k \in DOMAIN o.v

\* dict.get(k): None when absent
Get(o, k) == IF Has(o, k) THEN o.v[k] ELSE JNull

\* dict.get(k, default)
GetDefault(o, k, d) == IF Has(o, k) THEN o.v[k] ELSE d

\* Python `a or b`
PyOr(a, b) == IF Truthy(a) THEN a ELSE b

(***************************************************************************)
(* StyleAdapter: the text rewrite of style_adaptation_node                 *)
(***************************************************************************)
DQ == "dq"
SQ == "sq"
SEMI == ";"
NL == "nl"
SP == "sp"
TAB == "tab"

Chars == {DQ, SQ, SEMI, NL, SP, TAB, "a"}

\* what the regular expression class \s matches in the alphabet
IsSpace(c) == c \in {SP, TAB, NL}

\* str.replace(old, new) for single characters
Replace(s, old, new) == [i \in 1..Len(s) |-> IF s[i] = old THEN new ELSE s[i]]

\* the quote step: "single" turns " into ', "double" turns ' into "
ApplyQuotes(s, quotes) ==
    IF quotes = "single" THEN Replace(s, DQ, SQ)
    ELSE IF quotes = "double" THEN Replace(s, SQ, DQ)
    ELSE s

\* end of the maximal whitespace run that starts at position i
RECURSIVE SpaceRunEnd(_, _)
SpaceRunEnd(s, i) ==
    IF i <= Len(s) /\ IsSpace(s[i]) THEN SpaceRunEnd(s, i + 1) ELSE i - 1

\* last newline in s[lo..hi], or 0
RECURSIVE LastNewline(_, _, _)
LastNewline(s, lo, hi) ==
    IF hi < lo THEN 0
    ELSE IF s[hi] = NL THEN hi
    ELSE LastNewline(s, lo, hi - 1)

\* re.sub(r';\s*\n', '\n', s) scanning from position i: leftmost match, \s*
\* greedy with backtracking to the last newline of the whitespace run
RECURSIVE ReSubSemi(_, _)
ReSubSemi(s, i) ==
    IF i > Len(s) THEN <<>>
    ELSE IF s[i] = SEMI /\ LastNewline(s, i + 1, SpaceRunEnd(s, i + 1)) # 0
         THEN <<NL>> \o ReSubSemi(s, LastNewline(s, i + 1, SpaceRunEnd(s, i + 1)) + 1)
         ELSE <<s[i]>> \o ReSubSemi(s, i + 1)

ApplySemicolons(s, semicolons) ==
    IF ~semicolons THEN ReSubSemi(s, 1) ELSE s

\* s.split('\n')
RECURSIVE SplitLines(_)
SplitLines(s) ==
    IF \A i \in 1..Len(s) : s[i] # NL THEN <<s>>
    ELSE LET k == CHOOSE i \in 1..Len(s) :
                      s[i] = NL /\ \A j \in 1..(i - 1) : s[j] # NL
         IN <<SubSeq(s, 1, k - 1)>> \o SplitLines(SubSeq(s, k + 1, Len(s)))

\* '\n'.join(lines)
RECURSIVE JoinLines(_)
JoinLines(lines) ==
    IF Len(lines) = 0 THEN <<>>
    ELSE IF Len(lines) = 1 THEN lines[1]
    ELSE lines[1] \o <<NL>> \o JoinLines(Tail(lines))

\* line.startswith(' ' * n); ' ' * n is '' for n <= 0
StartsWithSpaces(line, n) ==
    IF n <= 0 THEN TRUE
    ELSE Len(line) >= n /\ \A i \in 1..n : line[i] = SP

\* line[n:] for n >= 0
DropFirst(line, n) ==
    IF n >= Len(line) THEN <<>> ELSE SubSeq(line, n + 1, Len(line))

\* a line adaptation that swallows one space, whatever indent_size is
AdaptLineOneSpace(line, n) ==
    IF StartsWithSpaces(line, n) THEN <<TAB>> \o DropFirst(line, 1) ELSE line

AdaptLine(line, n) ==
    IF StartsWithSpaces(line, n)
    THEN <<TAB>> \o DropFirst(line, IF n < 0 THEN 0 ELSE n)
    ELSE line

ApplyIndent(s, indent, indent_size) ==
    IF indent = "tabs"
    THEN LET lines == SplitLines(s)
         IN JoinLines([i \in 1..Len(lines) |-> AdaptLine(lines[i], indent_size)])
    ELSE s

\* the whole per-file transform: quotes, then semicolons, then indentation
StyleAdapt(s, tok) ==
    ApplyIndent(ApplySemicolons(ApplyQuotes(s, tok.quotes), tok.semicolons),
                tok.indent, tok.indent_size)

(***************************************************************************)
(* Text helpers                                                            *)
(***************************************************************************)
\* a JSON string holding one piece of text
S(x) == JS(<<x>>)

\* str(x) / f"{x}": a str is itself, anything else becomes its repr
Fmt(j) == IF IsStr(j) THEN j.v ELSE <<"<repr>">>

\* json.dumps(x): some JSON text
Dumps(j) == <<"<json>">>

\* a dict built from a table of entries, leaving out the absent ones
Absent == [t |-> "absent", v |-> <<>>]
MkObj(f) == JO([k \in {x \in DOMAIN f : f[x].t # "absent"} |-> f[k]])

EmptyObj == JO(<<>>)

(***************************************************************************)
(* models.py: PlanStep / PlanFile / PlanJSON validation and model_dump     *)
(***************************************************************************)
Kinds == {<<"code">>, <<"test">>, <<"config">>}

ListFields == {"steps", "files", "risks", "tests"}
PlanFields == {"title", "steps", "files", "risks", "tests", "prBody"}

ValidStep(s) ==
    /\ IsObj(s)
    /\ {"kind", "target", "summary"} \subseteq DOMAIN s.v
    /\ IsStr(s.v["kind"]) /\ s.v["kind"].v \in Kinds
    /\ IsStr(s.v["target"])
    /\ IsStr(s.v["summary"])

ValidFile(f) ==
    /\ IsObj(f)
    /\ {"path", "content"} \subseteq DOMAIN f.v
    /\ IsStr(f.v["path"])
    /\ IsStr(f.v["content"])

AllItems(l, P(_)) == IsList(l) /\ \A i \in 1..Len(l.v) : P(l.v[i])

\* PlanJSON(**d) succeeds
ValidPlanJSON(d) ==
    /\ IsObj(d)
    /\ PlanFields \subseteq DOMAIN d.v
    /\ IsStr(d.v["title"])
    /\ AllItems(d.v["steps"], ValidStep)
    /\ AllItems(d.v["files"], ValidFile)
    /\ AllItems(d.v["risks"], IsStr)
    /\ AllItems(d.v["tests"], IsStr)
    /\ IsStr(d.v["prBody"])

DumpStep(s) ==
    JO([kind |-> s.v["kind"], target |-> s.v["target"], summary |-> s.v["summary"]])

DumpFile(f) == JO([path |-> f.v["path"], content |-> f.v["content"]])

\* PlanJSON.model_dump() of a valid plan: the declared fields only
ModelDump(d) ==
    JO([title |-> d.v["title"],
        steps |-> JL([i \in 1..Len(d.v["steps"].v) |-> DumpStep(d.v["steps"].v[i])]),
        files |-> JL([i \in 1..Len(d.v["files"].v) |-> DumpFile(d.v["files"].v[i])]),
        risks |-> d.v["risks"],
        tests |-> d.v["tests"],
        prBody |-> d.v["prBody"]])

(***************************************************************************)
(* openai_client.py: gpt5_plan                                             *)
(***************************************************************************)
\* what the chat completion call gives: it raised or had no content, or its
\* content parsed (by _extract_json_object) to a JSON value
RaiseReply == [t |-> "raise", v |-> <<>>]
JsonReply(j) == [t |-> "reply", v |-> j]

\* _get(obj, *candidates, default): first candidate present and not None
PickFirst(obj, k1, k2, d) ==
    IF Has(obj, k1) /\ obj.v[k1].t # "null" THEN obj.v[k1]
    ELSE IF Has(obj, k2) /\ obj.v[k2].t # "null" THEN obj.v[k2]
    ELSE d

\* "if not isinstance(x, list): x = []"
CoerceList(j) == IF IsList(j) THEN j ELSE JL(<<>>)

\* coerce_step without its defaults
CoerceStepKeeping(s) == s

coerce_step(s) ==
    IF ~IsObj(s)
    THEN JO([kind |-> S("code"), target |-> S("src/main"), summary |-> JS(Fmt(s))])
    ELSE JO([kind |-> PyOr(Get(s, "kind"), S("code")),
             target |-> PyOr(Get(s, "target"), PyOr(Get(s, "path"), S("src/main"))),
             summary |-> PyOr(Get(s, "summary"),
                              PyOr(Get(s, "description"), S("Implement step")))])

coerce_file(f) ==
    IF ~IsObj(f)
    THEN JO([path |-> S("README.md"), content |-> JS(Fmt(f))])
    ELSE LET body == PyOr(Get(f, "body"), Get(f, "code"))
             content_val ==
                 IF Get(f, "content").t # "null" THEN Get(f, "content")
                 ELSE IF IsStr(body) THEN body
                 ELSE IF body.t # "null" THEN JS(Dumps(body))
                 ELSE JS(<<>>)
         IN JO([path |-> PyOr(Get(f, "path"), PyOr(Get(f, "file"), S("README.md"))),
                content |-> content_val])

MapList(l, F(_)) == JL([i \in 1..Len(l.v) |-> F(l.v[i])])

DefaultSteps ==
    JL(<<JO([kind |-> S("code"), target |-> S("main"),
             summary |-> S("Implement core functionality")]),
         JO([kind |-> S("test"), target |-> S("tests"), summary |-> S("Add tests")]),
         JO([kind |-> S("config"), target |-> S("config"),
             summary |-> S("Update configuration")])>>)

DefaultRisks == JL(<<S("Consider edge cases"), S("Test thoroughly")>>)
DefaultTests == JL(<<S("Unit tests"), S("Integration tests")>>)

DefaultReadme(title, idea) ==
    <<"# ">> \o Fmt(title) \o <<NL, NL, "This project implements: ">> \o idea
        \o <<NL, NL, "## Notes", NL, "- Generated with default fallbacks.">>

\* the backfill without its built-in default
BackfillFromTemplateOnly(cur, tmpl, k, d) ==
    IF Truthy(cur) THEN cur ELSE GetDefault(tmpl, k, JL(<<>>))

\* "if not plan_data[k]: plan_data[k] = tmpl.get(k, []) or default"
Backfill(cur, tmpl, k, d) ==
    IF Truthy(cur) THEN cur ELSE PyOr(GetDefault(tmpl, k, JL(<<>>)), d)

\* the dict handed to PlanJSON(...), lines 159-242; root is a dict
PlanData(root, idea, pattern) ==
    LET title == PickFirst(root, "title", "name", JS(<<"Development Plan: ">> \o idea))
        steps == MapList(CoerceList(PickFirst(root, "steps", "steps", JL(<<>>))), coerce_step)
        files == MapList(CoerceList(PickFirst(root, "files", "files", JL(<<>>))), coerce_file)
        risks == CoerceList(PickFirst(root, "risks", "risks", JL(<<>>)))
        tests == CoerceList(PickFirst(root, "tests", "tests", JL(<<>>)))
        pr_body == PickFirst(root, "prBody", "pr_body",
                             JS(<<"## Development Plan: ">> \o idea))
        tmpl == GetDefault(pattern, "template", EmptyObj)
    IN JO([title |-> title,
           steps |-> Backfill(steps, tmpl, "steps", DefaultSteps),
           files |-> Backfill(files, tmpl, "files",
                              JL(<<JO([path |-> S("README.md"),
                                       content |-> JS(DefaultReadme(title, idea))])>>)),
           risks |-> Backfill(risks, tmpl, "risks", DefaultRisks),
           tests |-> Backfill(tests, tmpl, "tests", DefaultTests),
           prBody |-> IF Truthy(pr_body) THEN pr_body
                      ELSE GetDefault(tmpl, "prBody",
                                      JS(<<"## Development Plan: ">> \o idea))])

Raised == [ok |-> FALSE, plan |-> JNull]
Returned(p) == [ok |-> TRUE, plan |-> p]

\* gpt5_plan: the PlanJSON built from the reply, or an exception
gpt5_plan(idea, route, pattern, style, reply) ==
    IF reply.t = "raise" THEN Raised
    ELSE LET raw == reply.v
             root == IF IsObj(raw) /\ IsObj(Get(raw, "plan")) THEN Get(raw, "plan") ELSE raw
         IN IF ~IsObj(root) THEN Raised
            ELSE IF ~ValidPlanJSON(PlanData(root, idea, pattern)) THEN Raised
            ELSE Returned(PlanData(root, idea, pattern))

(***************************************************************************)
(* langgraph/graph.py: the pipeline context and its five stages            *)
(***************************************************************************)
\* PlanGenerationState() with idea, project_id, user_id filled in
InitialState(idea) ==
    [idea |-> idea, intent |-> EmptyObj, pattern |-> EmptyObj,
     style_profile |-> EmptyObj, plan_json |-> EmptyObj, error |-> ""]

\* d[k] = val
SetKey(o, k, val) ==
    JO([x \in (DOMAIN o.v) \cup {k} |-> IF x = k THEN val ELSE o.v[x]])

DefaultIntent == JO([feature |-> S("general"), route |-> S("/api")])

\* analyze_intent: any failure of the call or of the parse gives the default
analyze_intent(reply) == IF reply.t = "raise" THEN DefaultIntent ELSE reply.v

intent_parser_node(ctx, reply) ==
    LET intent == analyze_intent(reply)
    IN IF ~IsObj(intent)
       THEN [ctx EXCEPT !.error = "Intent parsing failed"]
       ELSE LET i1 == IF ~Truthy(Get(intent, "feature"))
                      THEN SetKey(intent, "feature", S("general")) ELSE intent
                i2 == IF ~Truthy(Get(i1, "route"))
                      THEN SetKey(i1, "route", S("/api")) ELSE i1
            IN [ctx EXCEPT !.intent = i2]

\* f"{state.intent.get('feature', 'general')}-pattern"
PatternSlug(ctx) == Fmt(GetDefault(ctx.intent, "feature", S("general"))) \o <<"-pattern">>

DefaultSlug == <<"api-search-pagination">>

MinimalPattern ==
    JO([slug |-> S("default"),
        template |-> JO([steps |-> DefaultSteps,
                         files |-> JL(<<>>),
                         risks |-> DefaultRisks,
                         tests |-> DefaultTests,
                         prBody |-> S("Implementation of requested feature")])])

\* a pattern_loader_node without the in-memory template
PatternLoaderWithoutMinimal(ctx, first, second) ==
    [ctx EXCEPT !.pattern = IF Truthy(first) THEN first ELSE second]

\* first, second: what get_pattern gave for the feature slug and for the
\* default slug (None on a miss or a failed lookup)
pattern_loader_node(ctx, first, second) ==
    LET p1 == IF Truthy(first) THEN first ELSE second
        p2 == IF Truthy(p1) THEN p1 ELSE MinimalPattern
    IN [ctx EXCEPT !.pattern = p2]

DefaultStyleProfile ==
    JO([tokens |-> JO([quotes |-> S("double"), semicolons |-> JBool(TRUE),
                       indent |-> S("spaces"), indent_size |-> JNum(2),
                       test_framework |-> S("jest"),
                       directories |-> JL(<<S("src"), S("tests")>>),
                       aliases |-> JO("@" :> S("src")),
                       language |-> S("typescript")])])

style_adapter_node(ctx, profile) ==
    [ctx EXCEPT !.style_profile = IF Truthy(profile) THEN profile ELSE DefaultStyleProfile]

design_node(ctx, reply) ==
    IF ctx.error # "" THEN ctx
    ELSE LET out == gpt5_plan(ctx.idea, GetDefault(ctx.intent, "route", S("/api")),
                              ctx.pattern,
                              GetDefault(ctx.style_profile, "tokens", EmptyObj), reply)
         IN IF out.ok THEN [ctx EXCEPT !.plan_json = ModelDump(out.plan)]
            ELSE [ctx EXCEPT !.error = "Plan generation failed"]

\* the tokens as style_adaptation_node reads them (lines 166-178)
NodeTokens(style_tokens) ==
    [quotes |-> IF Get(style_tokens, "quotes") = S("single") THEN "single"
                ELSE IF Get(style_tokens, "quotes") = S("double") THEN "double"
                ELSE "other",
     semicolons |-> Truthy(GetDefault(style_tokens, "semicolons", JBool(TRUE))),
     indent |-> IF GetDefault(style_tokens, "indent", S("spaces")) = S("tabs")
                THEN "tabs" ELSE "spaces",
     indent_size |-> LET n == GetDefault(style_tokens, "indent_size", JNum(2))
                     IN IF n.t = "num" THEN n.v
                        ELSE IF n.t = "bool" THEN (IF n.v THEN 1 ELSE 0)
                        ELSE 0]

\* ' ' * indent_size raises TypeError unless indent_size is an int
IndentSizeIsInt(style_tokens) ==
    GetDefault(style_tokens, "indent_size", JNum(2)).t \in {"num", "bool"}

AdaptFile(f, tok) ==
    SetKey(f, "content", JS(StyleAdapt(GetDefault(f, "content", JS(<<>>)).v, tok)))

\* style_adaptation_node with a loop that stops after the first file
AdaptFirstFileOnly(ctx) ==
    IF ctx.error # "" \/ ~Truthy(ctx.plan_json) \/ ~Has(ctx.plan_json, "files") THEN ctx
    ELSE LET files == ctx.plan_json.v["files"]
             tok == NodeTokens(GetDefault(ctx.style_profile, "tokens", EmptyObj))
         IN [ctx EXCEPT !.plan_json =
                SetKey(ctx.plan_json, "files",
                       JL([i \in 1..Len(files.v) |->
                              IF i = 1 THEN AdaptFile(files.v[i], tok) ELSE files.v[i]]))]

style_adaptation_node(ctx) ==
    IF ctx.error # "" \/ ~Truthy(ctx.plan_json) THEN ctx
    ELSE LET style_tokens == GetDefault(ctx.style_profile, "tokens", EmptyObj)
             files == GetDefault(ctx.plan_json, "files", JL(<<>>))
             tok == NodeTokens(style_tokens)
         IN IF Len(files.v) > 0 /\ tok.indent = "tabs" /\ ~IndentSizeIsInt(style_tokens)
            THEN [ctx EXCEPT !.error = "Style adaptation failed"]
            ELSE IF ~Has(ctx.plan_json, "files") THEN ctx
            ELSE [ctx EXCEPT !.plan_json =
                     SetKey(ctx.plan_json, "files",
                            JL([i \in 1..Len(files.v) |-> AdaptFile(files.v[i], tok)]))]

\* the trace of a call: a node entered, a collaborator called with its result
Entered(node) == [fn |-> "node", arg |-> <<node>>, out |-> JNull]
Called(fn, arg, out) == [fn |-> fn, arg |-> arg, out |-> out]

intent_parser_calls(ctx, reply) ==
    <<Entered("intent_parser"), Called("analyze_intent", ctx.idea, analyze_intent(reply))>>

\* get_pattern for the feature slug, and for the default slug after a miss
pattern_loader_calls(ctx, first, second) ==
    <<Entered("pattern_loader"), Called("get_pattern", PatternSlug(ctx), first)>>
        \o (IF Truthy(first) THEN <<>> ELSE <<Called("get_pattern", DefaultSlug, second)>>)

style_adapter_calls(ctx, profile) ==
    <<Entered("style_adapter"), Called("get_style_profile", <<>>, profile)>>

design_calls(ctx, reply) ==
    <<Entered("design")>>
        \o (IF ctx.error # "" THEN <<>> ELSE <<Called("gpt5_plan", ctx.idea, JNull)>>)

style_adaptation_calls(ctx) == <<Entered("style_adaptation")>>

\* the edges of the graph out of the wrong nodes
NextNodeShuffled(node) ==
    CASE node = "intent_parser" -> "style_adapter"
      [] node = "style_adapter" -> "pattern_loader"
      [] node = "pattern_loader" -> "style_adaptation"
      [] node = "style_adaptation" -> "design"
      [] OTHER -> "end"

\* create_plan_generation_graph: the entry point and the edges (END is "end")
EntryPoint == "intent_parser"

NextNode(node) ==
    CASE node = "intent_parser" -> "pattern_loader"
      [] node = "pattern_loader" -> "style_adapter"
      [] node = "style_adapter" -> "design"
      [] node = "design" -> "style_adaptation"
      [] OTHER -> "end"

\* the end of generate_plan (lines 242-245): raise the error or return plan_json
GenRaised(e) == [status |-> "raised", error |-> e, doc |-> JNull]
GenReturned(d) == [status |-> "returned", error |-> "", doc |-> d]
GenNone == [status |-> "none", error |-> "", doc |-> JNull]

\* the end of generate_plan without its error check
ReturnWithoutErrorCheck(final_state) == GenReturned(final_state.plan_json)

generate_plan_result(final_state) ==
    IF final_state.error # "" THEN GenRaised(final_state.error)
    ELSE GenReturned(final_state.plan_json)

\* create_plan_generation_graph: the five nodes in the order of its edges
RunWorkflow(idea, r) ==
    style_adaptation_node(
      design_node(
        style_adapter_node(
          pattern_loader_node(
            intent_parser_node(InitialState(idea), r.intent),
            r.first, r.second),
          r.profile),
        r.plan))

generate_plan(idea, r) == generate_plan_result(RunWorkflow(idea, r))

(***************************************************************************)
(* What the collaborators can answer                                       *)
(***************************************************************************)
IntentReplies ==
    {RaiseReply,
     JsonReply(JO([feature |-> S("search"), route |-> S("/search")])),
     JsonReply(JO([feature |-> JS(<<>>), route |-> JNull])),
     JsonReply(JL(<<S("search")>>))}

\* rows of the patterns table follow models.Pattern: slug, template (a dict)
FullTemplate ==
    JO([steps |-> JL(<<JO([kind |-> S("test"), target |-> S("tests/api"),
                           summary |-> S("Cover the endpoint"), owner |-> S("qa")])>>),
        files |-> JL(<<JO([path |-> S("src/api.ts"),
                           content |-> JS(<<"a", SEMI, NL, SP, SP, SQ>>)])>>),
        risks |-> JL(<<S("Rate limits")>>),
        tests |-> JL(<<S("Pagination test")>>),
        prBody |-> S("Adds the endpoint")])

SparseTemplate ==
    JO([steps |-> JL(<<>>),
        risks |-> JNum(3),
        tests |-> JL(<<S("Smoke test")>>)])

Templates == {FullTemplate, SparseTemplate, EmptyObj}

PatternRow(slug, tmpl) == JO([slug |-> JS(slug), template |-> tmpl])

\* get_pattern(slug): a row with that slug, or None
PatternLookups(slug) == {JNull} \cup {PatternRow(slug, tm) : tm \in Templates}

\* rows of style_profiles follow models.StyleProfile: user_id, tokens (a dict)
StyleRows ==
    {JO([user_id |-> S("demo-user"),
         tokens |-> JO([quotes |-> S("single"), semicolons |-> JBool(FALSE),
                        indent |-> S("tabs"), indent_size |-> JNum(2)])]),
     JO([user_id |-> S("demo-user"),
         tokens |-> JO([indent |-> S("tabs"), indent_size |-> S("4")])])}

StyleLookups == {JNull} \cup StyleRows

GoodStep == JO([kind |-> S("code"), target |-> S("src/a.ts"), summary |-> S("Write a")])
AliasStep == JO([path |-> S("src/b.ts"), description |-> S("Write b")])
BogusStep == JO([kind |-> S("deploy"), target |-> S("prod"), summary |-> S("Ship it")])
GoodFile == JO([path |-> S("src/a.ts"), content |-> JS(<<DQ, "a", DQ, SEMI, NL>>)])
BodyFile == JO([file |-> S("src/b.ts"), body |-> JO([code |-> S("b")])])
BadFile == JO([path |-> S("src/c.ts"), content |-> JNum(1)])
\* a files entry that is a bare string, with quotes, a semicolon and an indent
QuotedText == JS(<<SP, SP, DQ, "t", DQ, SEMI, NL>>)

StepsOptions ==
    {Absent, JNull, S("none"), JL(<<>>), JL(<<GoodStep>>),
     JL(<<AliasStep, S("and then test"), EmptyObj>>), JL(<<BogusStep>>)}

FilesOptions ==
    {Absent, JO([a |-> S("b")]), JL(<<>>), JL(<<GoodFile>>),
     JL(<<BodyFile, QuotedText>>), JL(<<BadFile>>)}

StringsOptions ==
    {Absent, JBool(FALSE), JL(<<>>), JL(<<S("one"), S("two")>>), JL(<<JNum(7)>>)}

TitleOptions == {Absent, S("My plan")}

\* the JSON objects the synthesizer may answer, bare or wrapped under "plan"
PlanObjects ==
    {MkObj([title |-> ti, steps |-> st, files |-> fi, risks |-> ri, tests |-> te]) :
        ti \in TitleOptions, st \in StepsOptions, fi \in FilesOptions,
        ri \in StringsOptions, te \in StringsOptions}

PlanReplies ==
    {RaiseReply, JsonReply(JL(<<>>)), JsonReply(JO([plan |-> S("later")]))}
        \cup {JsonReply(o) : o \in PlanObjects}
        \cup {JsonReply(JO([plan |-> o])) : o \in PlanObjects}

\* generate_plan is called with the stripped, non-empty idea
PipeIdeas == {<<"todo app">>, <<"chat", SP, "bot">>}

(***************************************************************************)
(* utils/json_patch.py: the allow-list and the patch engine                *)
(*                                                                         *)
(* A JSON Pointer is the sequence of its reference tokens: "" is <<>>,     *)
(* "/steps/0" is <<"steps", "0">>.  A token holds no "/", so a string      *)
(* prefix that ends in "/" is a prefix of whole tokens followed by at      *)
(* least one more token.                                                   *)
(***************************************************************************)
ALLOWED_PATHS ==
    {<<"title">>, <<"steps", "*">>, <<"files", "*", "content">>,
     <<"tests", "*">>, <<"risks", "*">>, <<"prBody">>}

\* the tokens of an entry that precede its first "*": pattern.split(".*")[0]
RECURSIVE BeforeStar(_)
BeforeStar(entry) ==
    IF Len(entry) = 0 \/ Head(entry) = "*" THEN <<>>
    ELSE <<Head(entry)>> \o BeforeStar(Tail(entry))

HasStar(entry) == \E i \in 1..Len(entry) : entry[i] = "*"

\* a prefix test that forgets the "/" closing the prefix
StartsWithoutSlash(path, pre) ==
    /\ Len(path) >= Len(pre)
    /\ \A i \in 1..Len(pre) : path[i] = pre[i]

\* path.startswith("/" + "/".join(pre) + "/")
StartsWithTokens(path, pre) ==
    /\ Len(path) >= Len(pre) + 1
    /\ \A i \in 1..Len(pre) : path[i] = pre[i]

validate_patch_path(path) ==
    \/ path \in ALLOWED_PATHS
    \/ \E entry \in ALLOWED_PATHS :
          HasStar(entry) /\ StartsWithTokens(path, BeforeStar(entry))

OpNames == {"add", "remove", "replace", "move", "copy", "test"}

\* one operation of a batch; has_path is `"path" in operation`
Op(name, path, value) ==
    [op |-> name, has_path |-> TRUE, path |-> path, from |-> <<>>, value |-> value]

OpFrom(name, from, path) ==
    [op |-> name, has_path |-> TRUE, path |-> path, from |-> from, value |-> JNull]

validate_operation(operation) ==
    /\ operation.has_path
    /\ validate_patch_path(operation.path)
    /\ operation.op \in OpNames

\* a validation that looks at the first operation only
ValidateFirstOnly(patch) == Len(patch) = 0 \/ validate_operation(patch[1])

validate_patch_operations(patch) ==
    \A i \in 1..Len(patch) : validate_operation(patch[i])

\* ---- fastjsonpatch.apply_patch: RFC 6902 application, one operation after
\* ---- the other, raising at the first operation that cannot be applied
Failed == [ok |-> FALSE, doc |-> JNull]
Done(d) == [ok |-> TRUE, doc |-> d]

Digits == ("0" :> 0) @@ ("1" :> 1) @@ ("2" :> 2) @@ ("3" :> 3) @@ ("4" :> 4) @@ ("5" :> 5)

IsIndex(tok) == tok \in DOMAIN Digits

DelKey(o, k) == JO([x \in (DOMAIN o.v) \ {k} |-> o.v[x]])

InsertAt(l, i, val) ==
    JL(SubSeq(l.v, 1, i) \o <<val>> \o SubSeq(l.v, i + 1, Len(l.v)))

DeleteAt(l, i) == JL(SubSeq(l.v, 1, i) \o SubSeq(l.v, i + 2, Len(l.v)))

SetAt(l, i, val) == JL([x \in 1..Len(l.v) |-> IF x = i + 1 THEN val ELSE l.v[x]])

\* an AtLeaf for which every add to a list is an append
AtLeafAppending(kind, j, tok, val) ==
    IF IsObj(j)
    THEN CASE kind = "add" -> Done(SetKey(j, tok, val))
           [] kind = "remove" -> IF Has(j, tok) THEN Done(DelKey(j, tok)) ELSE Failed
           [] OTHER -> IF Has(j, tok) THEN Done(SetKey(j, tok, val)) ELSE Failed
    ELSE IF IsList(j)
    THEN CASE kind = "add" -> Done(JL(Append(j.v, val)))
           [] kind = "remove" ->
                 IF IsIndex(tok) /\ Digits[tok] < Len(j.v)
                 THEN Done(DeleteAt(j, Digits[tok])) ELSE Failed
           [] OTHER ->
                 IF IsIndex(tok) /\ Digits[tok] < Len(j.v)
                 THEN Done(SetAt(j, Digits[tok], val)) ELSE Failed
    ELSE Failed

\* the operation at its last token, on the container it addresses
AtLeaf(kind, j, tok, val) ==
    IF IsObj(j)
    THEN CASE kind = "add" -> Done(SetKey(j, tok, val))
           [] kind = "remove" -> IF Has(j, tok) THEN Done(DelKey(j, tok)) ELSE Failed
           [] OTHER -> IF Has(j, tok) THEN Done(SetKey(j, tok, val)) ELSE Failed
    ELSE IF IsList(j)
    THEN CASE kind = "add" ->
                 IF tok = "-" THEN Done(JL(Append(j.v, val)))
                 ELSE IF IsIndex(tok) /\ Digits[tok] <= Len(j.v)
                      THEN Done(InsertAt(j, Digits[tok], val))
                 ELSE Failed
           [] kind = "remove" ->
                 IF IsIndex(tok) /\ Digits[tok] < Len(j.v)
                 THEN Done(DeleteAt(j, Digits[tok])) ELSE Failed
           [] OTHER ->
                 IF IsIndex(tok) /\ Digits[tok] < Len(j.v)
                 THEN Done(SetAt(j, Digits[tok], val)) ELSE Failed
    ELSE Failed

\* the value one token below j, when there is one
CanStep(j, tok) ==
    \/ IsObj(j) /\ Has(j, tok)
    \/ IsList(j) /\ IsIndex(tok) /\ Digits[tok] < Len(j.v)

Child(j, tok) == IF IsObj(j) THEN j.v[tok] ELSE j.v[Digits[tok] + 1]

WithChild(j, tok, c) == IF IsObj(j) THEN SetKey(j, tok, c) ELSE SetAt(j, Digits[tok], c)

\* kind is "add", "remove" or "replace"; the empty pointer is the whole document
RECURSIVE Edit(_, _, _, _)
Edit(kind, j, path, val) ==
    IF Len(path) = 0
    THEN (IF kind = "remove" THEN Failed ELSE Done(val))
    ELSE IF Len(path) = 1 THEN AtLeaf(kind, j, path[1], val)
    ELSE IF ~CanStep(j, path[1]) THEN Failed
    ELSE LET r == Edit(kind, Child(j, path[1]), Tail(path), val)
         IN IF r.ok THEN Done(WithChild(j, path[1], r.doc)) ELSE Failed

\* the value a pointer addresses
RECURSIVE Resolve(_, _)
Resolve(j, path) ==
    IF Len(path) = 0 THEN Done(j)
    ELSE IF ~CanStep(j, path[1]) THEN Failed
    ELSE Resolve(Child(j, path[1]), Tail(path))

ApplyOp(doc, operation) ==
    CASE operation.op \in {"add", "remove", "replace"} ->
             Edit(operation.op, doc, operation.path, operation.value)
      [] operation.op = "test" ->
             IF Resolve(doc, operation.path).ok
                /\ Resolve(doc, operation.path).doc = operation.value
             THEN Done(doc) ELSE Failed
      [] operation.op = "copy" ->
             IF Resolve(doc, operation.from).ok
             THEN Edit("add", doc, operation.path, Resolve(doc, operation.from).doc)
             ELSE Failed
      [] operation.op = "move" ->
             IF Resolve(doc, operation.from).ok
                /\ Edit("remove", doc, operation.from, JNull).ok
             THEN Edit("add", Edit("remove", doc, operation.from, JNull).doc,
                       operation.path, Resolve(doc, operation.from).doc)
             ELSE Failed
      [] OTHER -> Failed

RECURSIVE ApplyFrom(_, _, _)
ApplyFrom(doc, patch, i) ==
    IF i > Len(patch) THEN Done(doc)
    ELSE LET r == ApplyOp(doc, patch[i])
         IN IF r.ok THEN ApplyFrom(r.doc, patch, i + 1) ELSE Failed

lib_apply_patch(doc, patch) == ApplyFrom(doc, patch, 1)

\* the batch applied as far as it goes: operations that fail are skipped
RECURSIVE ApplySkipping(_, _, _)
ApplySkipping(doc, patch, i) ==
    IF i > Len(patch) THEN Done(doc)
    ELSE LET r == ApplyOp(doc, patch[i])
         IN ApplySkipping(IF r.ok THEN r.doc ELSE doc, patch, i + 1)

\* an apply_patch that swallows the library's exception
ApplyPatchBestEffort(plan_json, patch) ==
    IF ~validate_patch_operations(patch) THEN Failed
    ELSE ApplySkipping(plan_json, patch, 1)

\* apply_patch: validate the whole batch, then hand it to the library; an
\* exception (ok = FALSE) carries no document
apply_patch(plan_json, patch) ==
    IF ~validate_patch_operations(patch) THEN Failed
    ELSE lib_apply_patch(plan_json, patch)

(***************************************************************************)
(* api/routes/plan.py and api/routes/plan_patch.py over the two stores     *)
(***************************************************************************)
PLAN_MODE == "dynamic"

\* the values the setting is documented to take
PlanModes == {"dynamic", "dynamic_strict", "mock"}

\* PLAN_MODE is a constant of the module: the build runs in the mode it names
ModeFixed == plan_mode = PLAN_MODE

\* a static fallback plan with nothing in its lists
EmptyFallback(idea) ==
    JO([title |-> JS(<<"Development Plan: ">> \o idea), steps |-> JL(<<>>),
        files |-> JL(<<>>), risks |-> JL(<<>>), tests |-> JL(<<>>),
        prBody |-> JS(<<"## ">> \o idea \o <<"<body>">>)])

\* a strip that removes nothing
NoStrip(s) == s

\* str.strip()
RECURSIVE LStrip(_)
LStrip(s) == IF Len(s) > 0 /\ IsSpace(Head(s)) THEN LStrip(Tail(s)) ELSE s

RECURSIVE RStrip(_)
RStrip(s) ==
    IF Len(s) > 0 /\ IsSpace(s[Len(s)]) THEN RStrip(SubSeq(s, 1, Len(s) - 1)) ELSE s

Strip(s) == RStrip(LStrip(s))

\* the plan create_development_plan starts from (lines 51-95)
MockPlan(idea) ==
    JO([title |-> JS(<<"Development Plan: ">> \o idea),
        steps |-> JL(<<JO([kind |-> S("config"), target |-> S("package.json"),
                           summary |-> S("Initialize project configuration and dependencies")]),
                       JO([kind |-> S("code"), target |-> S("src/index.js"),
                           summary |-> S("Implement core functionality")]),
                       JO([kind |-> S("test"), target |-> S("tests/index.test.js"),
                           summary |-> S("Add unit tests for core features")])>>),
        files |-> JL(<<JO([path |-> S("package.json"), content |-> S("<package.json>")]),
                       JO([path |-> S("src/index.js"), content |-> S("<index.js>")]),
                       JO([path |-> S("tests/index.test.js"), content |-> S("<index.test.js>")])>>),
        risks |-> JL(<<S("Technical complexity may require additional time"),
                       S("Dependencies might have compatibility issues"),
                       S("Testing coverage might be insufficient")>>),
        tests |-> JL(<<S("Verify basic functionality works as expected"),
                       S("Test error handling and edge cases"),
                       S("Validate API endpoints return correct responses")>>),
        prBody |-> JS(<<"## Development Plan: ">> \o idea \o <<"<body>">>)])

\* the static fallback plan (lines 122-154)
FallbackPlan(idea) ==
    JO([title |-> JS(<<"Development Plan: ">> \o idea),
        steps |-> JL(<<JO([kind |-> S("config"), target |-> S("project_setup"),
                           summary |-> S("Set up the project structure and dependencies")]),
                       JO([kind |-> S("code"), target |-> S("core_features"),
                           summary |-> S("Implement the core functionality")]),
                       JO([kind |-> S("test"), target |-> S("test_suite"),
                           summary |-> S("Create comprehensive tests")])>>),
        files |-> JL(<<JO([path |-> S("README.md"),
                           content |-> JS(<<"# ">> \o idea \o <<"<readme>">>)])>>),
        risks |-> JL(<<S("API Integration issues - Use proper error handling and fallbacks")>>),
        tests |-> JL(<<S("Basic functionality test - Test that the core features work correctly")>>),
        prBody |-> JS(<<"## ">> \o idea \o <<"<body>">>)])

\* uuid4(): the n-th identifier drawn; no two draws agree
LocalIdSeq == <<"L1", "L2", "L3", "L4", "L5", "L6">>

\* identifiers of the rows the hosted plans table holds
SupaIds == {"S1"}

NoDoc == JNull

Response(kind, status, planId, doc) ==
    [kind |-> kind, status |-> status, planId |-> planId, doc |-> doc]

\* a request, with the collaborator call that failed while it was handled
Request(kind, planId, patch, messageId, idea, fault) ==
    [kind |-> kind, planId |-> planId, patch |-> patch, messageId |-> messageId,
     idea |-> idea, fault |-> fault]

\* f with f[k] = val added or overwritten
Put(f, k, val) == [x \in (DOMAIN f) \cup {k} |-> IF x = k THEN val ELSE f[x]]

\* the plan the create handler persists and answers with (lines 51-154), or
\* NoDoc when it answers 502
PlanToStore(idea, r) ==
    IF plan_mode = "mock" THEN MockPlan(idea)
    ELSE LET generated == generate_plan(idea, r)
         IN IF generated.status = "returned"
            THEN (IF Truthy(generated.doc) THEN generated.doc ELSE MockPlan(idea))
            ELSE IF plan_mode = "dynamic_strict" THEN NoDoc
            ELSE FallbackPlan(idea)

\* the pipeline is run in every mode but "mock" (lines 97-105)
PipelineCalls == IF plan_mode = "mock" THEN <<>> ELSE <<"generate_plan">>

\* POST /plan; r: the collaborators' answers to the pipeline; stored: whether
\* local_storage.create_plan wrote its row or raised
create_development_plan(raw_idea, r, stored) ==
    LET idea == Strip(raw_idea)
        plan_json == PlanToStore(idea, r)
        plan_id == LocalIdSeq[Len(issued) + 1]
        request == Request("create", "", <<>>, JNull, raw_idea,
                           IF stored THEN "none" ELSE "create_plan")
    IN /\ req' = request
       /\ nreq' = nreq + 1
       /\ UNCHANGED <<supa_plans, revisions, messages, proposed>>
       /\ IF Len(idea) = 0
          THEN /\ resp' = Response("create", 400, "", NoDoc)
               /\ calls' = <<>>
               /\ UNCHANGED <<local_plans, issued>>
          ELSE IF plan_json = NoDoc
          THEN /\ resp' = Response("create", 502, "", NoDoc)
               /\ calls' = PipelineCalls
               /\ UNCHANGED <<local_plans, issued>>
          ELSE /\ calls' = PipelineCalls \o <<"local.create_plan">>
               /\ local_plans' = IF stored THEN Put(local_plans, plan_id, plan_json)
                                 ELSE local_plans
               /\ IF ValidPlanJSON(plan_json)
                  THEN /\ resp' = Response("create", 200, plan_id, ModelDump(plan_json))
                       /\ issued' = Append(issued, plan_id)
                  ELSE /\ resp' = Response("create", 400, "", NoDoc)
                       /\ UNCHANGED issued

\* GET /plan/{plan_id}: reads local_storage
get_plan_route(plan_id) ==
    /\ req' = Request("get", plan_id, <<>>, JNull, <<>>, "none")
    /\ nreq' = nreq + 1
    /\ calls' = <<"local.get_plan">>
    /\ resp' = IF plan_id \in DOMAIN local_plans
               THEN Response("get", 200, plan_id, local_plans[plan_id])
               ELSE Response("get", 404, plan_id, NoDoc)
    /\ UNCHANGED <<local_plans, supa_plans, revisions, issued, messages, proposed>>

Revision(plan_id, message_id, patch) ==
    [plan_id |-> plan_id, message_id |-> message_id, patch |-> patch]

\* POST /plan/patch; fault names the supabase call that fails, if any
\* apply_plan_patch with the revision recorded before the snapshot is written
RevisionBeforeWrite(plan_id, patch, message_id, fault) ==
    LET found == fault # "get_plan" /\ plan_id \in DOMAIN supa_plans
        out == apply_patch(supa_plans[plan_id], patch)
    IN /\ req' = Request("patch", plan_id, patch, message_id, <<>>, fault)
       /\ nreq' = nreq + 1
       /\ UNCHANGED <<local_plans, issued, messages, proposed>>
       /\ IF ~validate_patch_operations(patch)
          THEN /\ resp' = Response("patch", 400, plan_id, NoDoc)
               /\ calls' = <<>>
               /\ UNCHANGED <<supa_plans, revisions>>
          ELSE IF ~found
          THEN /\ resp' = Response("patch", 404, plan_id, NoDoc)
               /\ calls' = <<"supabase.get_plan">>
               /\ UNCHANGED <<supa_plans, revisions>>
          ELSE IF ~out.ok
          THEN /\ resp' = Response("patch", 500, plan_id, NoDoc)
               /\ calls' = <<"supabase.get_plan">>
               /\ UNCHANGED <<supa_plans, revisions>>
          ELSE IF fault = "update_plan"
          THEN /\ resp' = Response("patch", 500, plan_id, NoDoc)
               /\ calls' = <<"supabase.get_plan", "supabase.create_plan_revision",
                             "supabase.update_plan">>
               /\ revisions' = IF Truthy(message_id)
                               THEN Append(revisions, Revision(plan_id, message_id, patch))
                               ELSE revisions
               /\ UNCHANGED supa_plans
          ELSE /\ supa_plans' = Put(supa_plans, plan_id, out.doc)
               /\ resp' = Response("patch", 200, plan_id, out.doc)
               /\ IF Truthy(message_id)
                  THEN /\ calls' = <<"supabase.get_plan", "supabase.update_plan",
                                     "supabase.create_plan_revision">>
                       /\ revisions' =
                              IF fault = "create_plan_revision" THEN revisions
                              ELSE Append(revisions, Revision(plan_id, message_id, patch))
                  ELSE /\ calls' = <<"supabase.get_plan", "supabase.update_plan">>
                       /\ UNCHANGED revisions

apply_plan_patch(plan_id, patch, message_id, fault) ==
    LET found == fault # "get_plan" /\ plan_id \in DOMAIN supa_plans
        out == apply_patch(supa_plans[plan_id], patch)
    IN /\ req' = Request("patch", plan_id, patch, message_id, <<>>, fault)
       /\ nreq' = nreq + 1
       /\ UNCHANGED <<local_plans, issued, messages, proposed>>
       /\ IF ~validate_patch_operations(patch)
          THEN /\ resp' = Response("patch", 400, plan_id, NoDoc)
               /\ calls' = <<>>
               /\ UNCHANGED <<supa_plans, revisions>>
          ELSE IF ~found
          THEN /\ resp' = Response("patch", 404, plan_id, NoDoc)
               /\ calls' = <<"supabase.get_plan">>
               /\ UNCHANGED <<supa_plans, revisions>>
          ELSE IF ~out.ok
          THEN /\ resp' = Response("patch", 500, plan_id, NoDoc)
               /\ calls' = <<"supabase.get_plan">>
               /\ UNCHANGED <<supa_plans, revisions>>
          ELSE IF fault = "update_plan"
          THEN /\ resp' = Response("patch", 500, plan_id, NoDoc)
               /\ calls' = <<"supabase.get_plan", "supabase.update_plan">>
               /\ UNCHANGED <<supa_plans, revisions>>
          ELSE /\ supa_plans' = Put(supa_plans, plan_id, out.doc)
               /\ resp' = Response("patch", 200, plan_id, out.doc)
               /\ IF Truthy(message_id)
                  THEN /\ calls' = <<"supabase.get_plan", "supabase.update_plan",
                                     "supabase.create_plan_revision">>
                       /\ revisions' =
                              IF fault = "create_plan_revision" THEN revisions
                              ELSE Append(revisions, Revision(plan_id, message_id, patch))
                  ELSE /\ calls' = <<"supabase.get_plan", "supabase.update_plan">>
                       /\ UNCHANGED revisions

(***************************************************************************)
(* api/routes/ask.py: ask_copilot and gpt5_patch                           *)
(***************************************************************************)
NoProposal == [ok |-> FALSE, rationale |-> JNull, patch |-> <<>>]

\* PatchResponse(rationale=..., patch=...)
PatchResponse(rationale, patch) == [ok |-> TRUE, rationale |-> rationale, patch |-> patch]

\* the parsed completion of gpt5_patch: a dict with the fields it carries
PatchData(f) == [t |-> "reply", v |-> f]

\* gpt5_patch(context): the completion's rationale and patch as they come;
\* the nodePath of the context goes into the prompt and is not looked at again
gpt5_patch(context, reply) ==
    IF reply.t = "raise" THEN NoProposal
    ELSE IF ~({"rationale", "patch"} \subseteq DOMAIN reply.v) THEN NoProposal
    ELSE IF ~IsStr(reply.v["rationale"]) THEN NoProposal
    ELSE PatchResponse(reply.v["rationale"], reply.v["patch"])

\* the ids the plan_messages table hands out
MessageIdSeq == <<"m1", "m2", "m3", "m4", "m5", "m6">>

Message(id, plan_id, node_path) == [id |-> id, plan_id |-> plan_id, node_path |-> node_path]

AskRequest(plan_id, node_path, fault) ==
    [kind |-> "ask", planId |-> plan_id, patch |-> <<>>, messageId |-> JNull,
     idea |-> <<>>, fault |-> fault, nodePath |-> node_path]

\* POST /ask; reply: the completion gpt5_patch gets; fault names the
\* supabase call that fails, if any
ask_copilot(plan_id, node_path, reply, fault) ==
    LET found == fault # "get_plan" /\ plan_id \in DOMAIN supa_plans
        message_id == MessageIdSeq[Len(messages) + 1]
        context == [plan |-> supa_plans[plan_id], nodePath |-> node_path,
                    messageId |-> message_id]
        patch_response == gpt5_patch(context, reply)
    IN /\ req' = AskRequest(plan_id, node_path, fault)
       /\ nreq' = nreq + 1
       /\ UNCHANGED <<local_plans, supa_plans, revisions, issued>>
       /\ IF ~found
          THEN /\ resp' = Response("ask", 404, plan_id, NoDoc)
               /\ calls' = <<"supabase.get_plan">>
               /\ proposed' = NoProposal
               /\ UNCHANGED messages
          ELSE IF fault = "create_plan_message"
          THEN /\ resp' = Response("ask", 500, plan_id, NoDoc)
               /\ calls' = <<"supabase.get_plan", "supabase.create_plan_message">>
               /\ proposed' = NoProposal
               /\ UNCHANGED messages
          ELSE /\ messages' = Append(messages, Message(message_id, plan_id, node_path))
               /\ calls' = <<"supabase.get_plan", "supabase.create_plan_message",
                              "gpt5_patch">>
               /\ proposed' = patch_response
               /\ resp' = Response("ask", IF patch_response.ok THEN 200 ELSE 500,
                                   plan_id, NoDoc)

(***************************************************************************)
(* The requests of the service run                                         *)
(***************************************************************************)
RawIdeas == {<<SP>>, <<SP, "todo app", NL>>}

GoodPlanObject ==
    JO([title |-> S("My plan"), steps |-> JL(<<GoodStep>>), files |-> JL(<<GoodFile>>),
        risks |-> JL(<<S("one")>>), tests |-> JL(<<S("two")>>), prBody |-> S("Body")])

Replies(intent, first, second, profile, plan) ==
    [intent |-> intent, first |-> first, second |-> second, profile |-> profile,
     plan |-> plan]

CreateReplies ==
    {Replies(RaiseReply, JNull, second, profile, plan) :
        second \in {JNull, PatternRow(DefaultSlug, FullTemplate)},
        profile \in StyleLookups,
        plan \in {RaiseReply, JsonReply(GoodPlanObject), JsonReply(EmptyObj)}}

\* the plan the hosted table holds for S1 when the run starts
SeedPlan ==
    JO([title |-> S("Seed plan"),
        steps |-> JL(<<GoodStep>>),
        files |-> JL(<<GoodFile>>),
        risks |-> JL(<<S("Seed risk")>>),
        tests |-> JL(<<S("Seed test")>>),
        prBody |-> S("Seed body")])

opTitle == Op("replace", <<"title">>, S("Renamed"))
opDropTitle == Op("remove", <<"title">>, JNull)
opAddRisk == Op("add", <<"risks", "-">>, S("New risk"))
opContent == Op("replace", <<"files", "0", "content">>, JS(<<"b", SEMI>>))
opBadKind == Op("replace", <<"steps", "0", "kind">>, S("deploy"))
opFar == Op("remove", <<"steps", "5">>, JNull)
opWholeList == Op("replace", <<"files">>, JL(<<>>))
opMerge == [Op("add", <<"prBody">>, S("Merged")) EXCEPT !.op = "merge"]

Batches ==
    {<<>>, <<opTitle>>, <<opAddRisk>>, <<opContent>>, <<opDropTitle>>, <<opBadKind>>,
     <<opFar>>, <<opWholeList>>, <<opMerge>>,
     <<opTitle, opAddRisk>>, <<opTitle, opFar>>, <<opAddRisk, opWholeList>>}

MessageIds == {JNull, S("m1")}

Faults == {"none", "get_plan", "update_plan", "create_plan_revision"}

PatchTargets == SupaIds \cup {LocalIdSeq[1]}

\* the nodePath of an ask request
NodePaths == {<<"steps", "0">>}

opSummary == Op("replace", <<"steps", "0", "summary">>, S("Write a, carefully"))

\* what the completion of gpt5_patch may hold
PatchCompletions ==
    {RaiseReply,
     PatchData([rationale |-> S("why")]),
     PatchData([rationale |-> S("why"), patch |-> <<opSummary>>]),
     PatchData([rationale |-> S("why"), patch |-> <<opSummary, opTitle>>])}

AskFaults == {"none", "get_plan", "create_plan_message"}

SvcStart ==
    /\ local_plans = <<>>
    /\ supa_plans = [id \in SupaIds |-> SeedPlan]
    /\ revisions = <<>>
    /\ issued = <<>>
    /\ req = Request("none", "", <<>>, JNull, <<>>, "none")
    /\ resp = Response("none", 0, "", NoDoc)
    /\ calls = <<>>
    /\ nreq = 0
    /\ messages = <<>>
    /\ proposed = NoProposal

SvcIdle ==
    /\ local_plans = <<>>
    /\ supa_plans = <<>>
    /\ revisions = <<>>
    /\ issued = <<>>
    /\ req = Request("none", "", <<>>, JNull, <<>>, "none")
    /\ resp = Response("none", 0, "", NoDoc)
    /\ calls = <<>>
    /\ nreq = -1
    /\ messages = <<>>
    /\ proposed = NoProposal

CreatePlan ==
    /\ nreq \in 0..(MaxReq - 1)
    /\ \E raw_idea \in RawIdeas, r \in CreateReplies, stored \in BOOLEAN :
          create_development_plan(raw_idea, r, stored)
    /\ UNCHANGED notSvc

GetPlan ==
    /\ nreq \in 0..(MaxReq - 1)
    /\ \E plan_id \in PatchTargets : get_plan_route(plan_id)
    /\ UNCHANGED notSvc

PatchPlan ==
    /\ nreq \in 0..(MaxReq - 1)
    /\ \E plan_id \in PatchTargets, patch \in Batches, message_id \in MessageIds,
          fault \in Faults :
          apply_plan_patch(plan_id, patch, message_id, fault)
    /\ UNCHANGED notSvc

AskCopilot ==
    /\ nreq \in 0..(MaxReq - 1)
    /\ \E plan_id \in PatchTargets, node_path \in NodePaths,
          reply \in PatchCompletions, fault \in AskFaults :
          ask_copilot(plan_id, node_path, reply, fault)
    /\ UNCHANGED notSvc

Next == CreatePlan \/ GetPlan \/ PatchPlan \/ AskCopilot

(***************************************************************************)
(* SpecStyle: the adapter applied once and then again to its own output    *)
(***************************************************************************)
RECURSIVE SeqsUpTo(_, _)
SeqsUpTo(A, n) ==
    IF n = 0 THEN {<<>>}
    ELSE LET shorter == SeqsUpTo(A, n - 1)
         IN shorter \cup {Append(s, c) : s \in {x \in shorter : Len(x) = n - 1}, c \in A}

Contents == SeqsUpTo(Chars, MaxLen)

StyleTokens ==
    [quotes : {"single", "double"}, semicolons : BOOLEAN,
     indent : {"spaces", "tabs"}, indent_size : 1..MaxIndent]

NoTokens == [quotes |-> "double", semicolons |-> TRUE, indent |-> "spaces", indent_size |-> 1]

StyleStart ==
    /\ content \in Contents
    /\ tokens = NoTokens
    /\ once = <<>>
    /\ twice = <<>>
    /\ spc = "new"

StyleIdle ==
    /\ content = <<>>
    /\ tokens = NoTokens
    /\ once = <<>>
    /\ twice = <<>>
    /\ spc = "idle"

AdaptOnce ==
    /\ spc = "new"
    /\ \E tok \in StyleTokens :
          /\ tokens' = tok
          /\ once' = StyleAdapt(content, tok)
    /\ spc' = "once"
    /\ UNCHANGED <<content, twice>>
    /\ UNCHANGED notStyle

AdaptTwice ==
    /\ spc = "once"
    /\ twice' = StyleAdapt(once, tokens)
    /\ spc' = "twice"
    /\ UNCHANGED <<content, tokens, once>>
    /\ UNCHANGED notStyle

StyleNext == AdaptOnce \/ AdaptTwice

(***************************************************************************)
(* SpecPipe: one generate_plan call, node by node                          *)
(***************************************************************************)
PipeStart ==
    /\ pctx \in {InitialState(idea) : idea \in PipeIdeas}
    /\ pstage = EntryPoint
    /\ presult = GenNone
    /\ pfirst = ""
    /\ pcalls = <<>>

PipeIdle ==
    /\ pctx = InitialState(<<>>)
    /\ pstage = "idle"
    /\ presult = GenNone
    /\ pfirst = ""
    /\ pcalls = <<>>

\* the record of the first error set in the call
NoteError ==
    pfirst' = IF pfirst = "" /\ pctx'.error # pctx.error THEN pctx'.error ELSE pfirst

IntentParser ==
    /\ pstage = "intent_parser"
    /\ \E reply \in IntentReplies :
          /\ pctx' = intent_parser_node(pctx, reply)
          /\ pcalls' = pcalls \o intent_parser_calls(pctx, reply)
    /\ pstage' = NextNode(pstage)
    /\ NoteError
    /\ UNCHANGED presult
    /\ UNCHANGED notPipe

PatternLoader ==
    /\ pstage = "pattern_loader"
    /\ \E first \in PatternLookups(PatternSlug(pctx)), second \in PatternLookups(DefaultSlug) :
          /\ pctx' = pattern_loader_node(pctx, first, second)
          /\ pcalls' = pcalls \o pattern_loader_calls(pctx, first, second)
    /\ pstage' = NextNode(pstage)
    /\ NoteError
    /\ UNCHANGED presult
    /\ UNCHANGED notPipe

StyleLoader ==
    /\ pstage = "style_adapter"
    /\ \E profile \in StyleLookups :
          /\ pctx' = style_adapter_node(pctx, profile)
          /\ pcalls' = pcalls \o style_adapter_calls(pctx, profile)
    /\ pstage' = NextNode(pstage)
    /\ NoteError
    /\ UNCHANGED presult
    /\ UNCHANGED notPipe

Design ==
    /\ pstage = "design"
    /\ \E reply \in PlanReplies :
          /\ pctx' = design_node(pctx, reply)
          /\ pcalls' = pcalls \o design_calls(pctx, reply)
    /\ pstage' = NextNode(pstage)
    /\ NoteError
    /\ UNCHANGED presult
    /\ UNCHANGED notPipe

StyleAdaptation ==
    /\ pstage = "style_adaptation"
    /\ pctx' = style_adaptation_node(pctx)
    /\ pcalls' = pcalls \o style_adaptation_calls(pctx)
    /\ pstage' = NextNode(pstage)
    /\ NoteError
    /\ UNCHANGED presult
    /\ UNCHANGED notPipe

Finish ==
    /\ pstage = "end"
    /\ presult' = generate_plan_result(pctx)
    /\ pstage' = "done"
    /\ UNCHANGED <<pctx, pfirst, pcalls>>
    /\ UNCHANGED notPipe

PipeNext ==
    \/ IntentParser
    \/ PatternLoader
    \/ StyleLoader
    \/ Design
    \/ StyleAdaptation
    \/ Finish

(***************************************************************************)
(* SpecPath: validate_patch_path applied to one pointer                    *)
(***************************************************************************)
PathTokens ==
    {"title", "prBody", "steps", "files", "tests", "risks",
     "0", "content", "path", "summary", "extra"}

Pointers == SeqsUpTo(PathTokens, MaxTokens)

PathStart ==
    /\ vpath \in Pointers
    /\ vok = FALSE
    /\ vpc = "new"

PathIdle ==
    /\ vpath = <<>>
    /\ vok = FALSE
    /\ vpc = "idle"

ValidatePath ==
    /\ vpc = "new"
    /\ vok' = validate_patch_path(vpath)
    /\ vpc' = "checked"
    /\ UNCHANGED vpath
    /\ UNCHANGED notPath

PathNext == ValidatePath

(***************************************************************************)
(* SpecApply: apply_patch applied to one document and one batch            *)
(***************************************************************************)
\* a plan with two entries in every list
WidePlan ==
    JO([title |-> S("Wide plan"),
        steps |-> JL(<<GoodStep, JO([kind |-> S("test"), target |-> S("tests/a.ts"),
                                     summary |-> S("Test a")])>>),
        files |-> JL(<<GoodFile, JO([path |-> S("b.ts"), content |-> S("b")])>>),
        risks |-> JL(<<S("r0"), S("r1")>>),
        tests |-> JL(<<S("t0"), S("t1")>>),
        prBody |-> S("Wide body")])

ApplyDocs == {SeedPlan, WidePlan}

\* a value fit for the list
ItemFor(list) ==
    CASE list = "steps" -> JO([kind |-> S("config"), target |-> S("c.json"),
                               summary |-> S("Configure")])
      [] list = "files" -> JO([path |-> S("new.ts"), content |-> JS(<<>>)])
      [] OTHER -> S("new")

ApplyOps ==
    {Op("add", <<l, "-">>, ItemFor(l)) : l \in {"steps", "files", "risks", "tests"}}
        \cup {Op(name, <<l, tok>>, ItemFor(l)) :
                  name \in {"add", "replace", "remove"}, l \in {"files", "risks"},
                  tok \in {"-", "0", "1", "3"}}
        \cup {opTitle, opWholeList,
               OpFrom("move", <<"files">>, <<"risks", "0">>),
               OpFrom("copy", <<"files">>, <<"risks", "-">>)}

ApplyBatches == SeqsUpTo(ApplyOps, MaxOps)

ApplyStart ==
    /\ adoc \in ApplyDocs
    /\ abatch \in ApplyBatches
    /\ aout = Failed
    /\ apc = "new"

ApplyIdle ==
    /\ adoc = JNull
    /\ abatch = <<>>
    /\ aout = Failed
    /\ apc = "idle"

ApplyBatch ==
    /\ apc = "new"
    /\ aout' = apply_patch(adoc, abatch)
    /\ apc' = "applied"
    /\ UNCHANGED <<adoc, abatch>>
    /\ UNCHANGED notApply

ApplyNext == ApplyBatch

(***************************************************************************)
(* SpecRace: two apply_plan_patch requests for the same plan.  A handler   *)
(* runs from one await of a supabase call to the next; between two awaits  *)
(* the other request (of this or of another server process) may run.       *)
(***************************************************************************)
Requests == {1, 2}

RacePatches == {<<opTitle>>, <<opAddRisk>>, <<opContent>>, <<opSummary>>}

RaceStart ==
    /\ rstore = SeedPlan
    /\ rrevs = <<>>
    /\ rreq \in [Requests -> [patch : RacePatches, messageId : MessageIds]]
    /\ rloaded = [i \in Requests |-> NoDoc]
    /\ rpc = [i \in Requests |-> "get_plan"]
    /\ rresp = [i \in Requests |-> 0]

RaceIdle ==
    /\ rstore = NoDoc
    /\ rrevs = <<>>
    /\ rreq = <<>>
    /\ rloaded = <<>>
    /\ rpc = <<>>
    /\ rresp = <<>>

\* lines 20-27: validate the batch, then get_plan (found: whether it gave a row)
RaceGetPlan(i, found) ==
    /\ rpc[i] = "get_plan"
    /\ IF ~validate_patch_operations(rreq[i].patch)
       THEN /\ rresp' = [rresp EXCEPT ![i] = 400]
            /\ rpc' = [rpc EXCEPT ![i] = "done"]
            /\ UNCHANGED rloaded
       ELSE IF ~found
       THEN /\ rresp' = [rresp EXCEPT ![i] = 404]
            /\ rpc' = [rpc EXCEPT ![i] = "done"]
            /\ UNCHANGED rloaded
       ELSE /\ rloaded' = [rloaded EXCEPT ![i] = rstore]
            /\ rpc' = [rpc EXCEPT ![i] = "update_plan"]
            /\ UNCHANGED rresp
    /\ UNCHANGED <<rstore, rrevs, rreq>>

\* lines 29-38: apply_patch on the loaded plan_json, then update_plan
\* (written: whether the row was written)
RaceUpdatePlan(i, written) ==
    LET out == apply_patch(rloaded[i], rreq[i].patch)
    IN /\ rpc[i] = "update_plan"
       /\ IF ~out.ok \/ ~written
          THEN /\ rresp' = [rresp EXCEPT ![i] = 500]
               /\ rpc' = [rpc EXCEPT ![i] = "done"]
               /\ UNCHANGED rstore
          ELSE /\ rstore' = out.doc
               /\ rpc' = [rpc EXCEPT ![i] = "revision"]
               /\ UNCHANGED rresp
       /\ UNCHANGED <<rrevs, rreq, rloaded>>

\* lines 40-54: create_plan_revision when there is a messageId, then the answer
RaceRevision(i) ==
    /\ rpc[i] = "revision"
    /\ rrevs' = IF Truthy(rreq[i].messageId)
                THEN Append(rrevs, Revision("S1", rreq[i].messageId, rreq[i].patch))
                ELSE rrevs
    /\ rresp' = [rresp EXCEPT ![i] = 200]
    /\ rpc' = [rpc EXCEPT ![i] = "done"]
    /\ UNCHANGED <<rstore, rreq, rloaded>>

RaceGet == (\E i \in Requests, found \in BOOLEAN : RaceGetPlan(i, found)) /\ UNCHANGED notRace

RaceUpdate ==
    (\E i \in Requests, written \in BOOLEAN : RaceUpdatePlan(i, written)) /\ UNCHANGED notRace

RaceRevise == (\E i \in Requests : RaceRevision(i)) /\ UNCHANGED notRace

RaceNext == RaceGet \/ RaceUpdate \/ RaceRevise

(***************************************************************************)
(* SpecTwo: two generate_plan calls whose nodes interleave                 *)
(***************************************************************************)
PipeCalls == {1, 2}

TwoIdeas == <<<<"todo app">>, <<"chat", SP, "bot">>>>

\* a module-level context that every call would work on
SharedContext(call) == 1

\* generate_plan line 234: each call makes its own PlanGenerationState
ContextOf(call) == call

\* the node of that name applied to a context
RunNode(node, ctx, r) ==
    CASE node = "intent_parser" -> intent_parser_node(ctx, r.intent)
      [] node = "pattern_loader" -> pattern_loader_node(ctx, r.first, r.second)
      [] node = "style_adapter" -> style_adapter_node(ctx, r.profile)
      [] node = "design" -> design_node(ctx, r.plan)
      [] OTHER -> style_adaptation_node(ctx)

TwoStart ==
    /\ tctx = [c \in PipeCalls |-> InitialState(TwoIdeas[c])]
    /\ tstage = [c \in PipeCalls |-> EntryPoint]
    /\ treplies \in [PipeCalls -> CreateReplies]
    /\ tres = [c \in PipeCalls |-> GenNone]

TwoIdle ==
    /\ tctx = <<>>
    /\ tstage = <<>>
    /\ treplies = <<>>
    /\ tres = <<>>

TwoNode ==
    /\ \E c \in PipeCalls :
          /\ tstage[c] \notin {"end", "done"}
          /\ tctx' = [tctx EXCEPT ![ContextOf(c)] =
                          RunNode(tstage[c], tctx[ContextOf(c)], treplies[c])]
          /\ tstage' = [tstage EXCEPT ![c] = NextNode(tstage[c])]
    /\ UNCHANGED <<treplies, tres>>
    /\ UNCHANGED notTwo

TwoFinish ==
    /\ \E c \in PipeCalls :
          /\ tstage[c] = "end"
          /\ tres' = [tres EXCEPT ![c] = generate_plan_result(tctx[ContextOf(c)])]
          /\ tstage' = [tstage EXCEPT ![c] = "done"]
    /\ UNCHANGED <<tctx, treplies>>
    /\ UNCHANGED notTwo

TwoNext == TwoNode \/ TwoFinish

(***************************************************************************)
(* SpecSynth: gpt5_plan applied to one completion                          *)
(***************************************************************************)
\* what the completion may hold as an entry of steps
StepEntries ==
    {MkObj([kind |-> k, target |-> t, path |-> p, summary |-> su, description |-> d]) :
        k \in {Absent, JNull, JS(<<>>), S("code"), S("test"), S("config"), S("deploy"),
               JNum(1)},
        t \in {Absent, JS(<<>>), S("t")},
        p \in {Absent, S("p")},
        su \in {Absent, JNull, S("s")},
        d \in {Absent, S("d")}}
        \cup {S("do it"), JNum(3)}

SynthReplies ==
    {JsonReply(SetKey(GoodPlanObject, "steps", JL(<<e>>))) : e \in StepEntries}
        \cup {JsonReply(SetKey(GoodPlanObject, "steps", JL(<<GoodStep, e>>))) :
                  e \in {AliasStep, BogusStep}}
        \cup {JsonReply(DelKey(GoodPlanObject, "steps"))}

SynthPatterns ==
    {MinimalPattern, PatternRow(DefaultSlug, FullTemplate),
     PatternRow(DefaultSlug, SetKey(FullTemplate, "steps", JL(<<BogusStep>>)))}

SynthIdea == <<"todo app">>

SynthStart ==
    /\ gpattern \in SynthPatterns
    /\ greply \in SynthReplies
    /\ gout = Raised
    /\ gpc = "new"

SynthIdle ==
    /\ gpattern = JNull
    /\ greply = RaiseReply
    /\ gout = Raised
    /\ gpc = "idle"

Synthesize ==
    /\ gpc = "new"
    /\ gout' = gpt5_plan(SynthIdea, S("/api"), gpattern, EmptyObj, greply)
    /\ gpc' = "done"
    /\ UNCHANGED <<gpattern, greply>>
    /\ UNCHANGED notSynth

SynthNext == Synthesize

vars == <<styleVars, pipeVars, svcVars, pathVars, applyVars, raceVars, twoVars, synthVars, modeVars>>

Init == SvcStart /\ StyleIdle /\ PipeIdle /\ PathIdle /\ ApplyIdle /\ RaceIdle /\ TwoIdle /\ SynthIdle /\ ModeFixed

Spec == Init /\ [][Next]_vars

StyleInit == StyleStart /\ PipeIdle /\ SvcIdle /\ PathIdle /\ ApplyIdle /\ RaceIdle /\ TwoIdle /\ SynthIdle /\ ModeFixed

SpecStyle == StyleInit /\ [][StyleNext]_vars

PipeInit == PipeStart /\ StyleIdle /\ SvcIdle /\ PathIdle /\ ApplyIdle /\ RaceIdle /\ TwoIdle /\ SynthIdle /\ ModeFixed

SpecPipe == PipeInit /\ [][PipeNext]_vars

PathInit == PathStart /\ StyleIdle /\ PipeIdle /\ SvcIdle /\ ApplyIdle /\ RaceIdle /\ TwoIdle /\ SynthIdle /\ ModeFixed

SpecPath == PathInit /\ [][PathNext]_vars

ApplyInit == ApplyStart /\ StyleIdle /\ PipeIdle /\ SvcIdle /\ PathIdle /\ RaceIdle /\ TwoIdle /\ SynthIdle /\ ModeFixed

SpecApply == ApplyInit /\ [][ApplyNext]_vars

RaceInit == RaceStart /\ StyleIdle /\ PipeIdle /\ SvcIdle /\ PathIdle /\ ApplyIdle /\ TwoIdle /\ SynthIdle /\ ModeFixed

SpecRace == RaceInit /\ [][RaceNext]_vars

TwoInit ==
    /\ TwoStart /\ StyleIdle /\ PipeIdle /\ SvcIdle /\ PathIdle /\ ApplyIdle /\ RaceIdle
    /\ SynthIdle /\ ModeFixed

SpecTwo == TwoInit /\ [][TwoNext]_vars

SynthInit ==
    /\ SynthStart /\ StyleIdle /\ PipeIdle /\ SvcIdle /\ PathIdle /\ ApplyIdle /\ RaceIdle
    /\ TwoIdle /\ ModeFixed

SpecSynth == SynthInit /\ [][SynthNext]_vars

(***************************************************************************)
(* SpecModes: plan creation and retrieval under each value of PLAN_MODE    *)
(***************************************************************************)
ModesInit ==
    /\ plan_mode \in PlanModes
    /\ SvcStart /\ StyleIdle /\ PipeIdle /\ PathIdle /\ ApplyIdle /\ RaceIdle /\ TwoIdle
    /\ SynthIdle

ModesNext == CreatePlan \/ GetPlan

SpecModes == ModesInit /\ [][ModesNext]_vars

\* a request was answered in this step
Answered(kind) == nreq' = nreq + 1 /\ req'.kind = kind

StoresUnchanged ==
    /\ local_plans' = local_plans
    /\ supa_plans' = supa_plans
    /\ revisions' = revisions
    /\ messages' = messages

HasRejectedPath(patch) ==
    \E i \in 1..Len(patch) : ~validate_patch_path(patch[i].path)

\* C4: a batch holding any operation whose path validate_patch_path rejects
\* is answered 400 before the plan is loaded, apply_patch would raise on it for
\* every stored document, and no store and no revision changes.
C4_RejectedBatch ==
    [][(Answered("patch") /\ HasRejectedPath(req'.patch)) =>
          /\ resp'.status = 400
          /\ calls' = <<>>
          /\ StoresUnchanged
          /\ \A id \in DOMAIN supa_plans : ~apply_patch(supa_plans[id], req'.patch).ok]_vars

\* C4 witness: a batch whose first operation is allowed and whose second is
\* not was sent for a stored plan and answered 400.
C4_Witness ==
    /\ req.kind = "patch"
    /\ req.patch = <<opAddRisk, opWholeList>>
    /\ req.planId \in DOMAIN supa_plans
    /\ resp.status = 400

\* the index of the first operation that cannot be applied when the batch is
\* applied in order, or 0
RECURSIVE FirstFailure(_, _, _)
FirstFailure(doc, patch, i) ==
    IF i > Len(patch) THEN 0
    ELSE IF ~ApplyOp(doc, patch[i]).ok THEN i
    ELSE FirstFailure(ApplyOp(doc, patch[i]).doc, patch, i + 1)

\* C5: when an operation of a valid batch fails traversal on the loaded plan,
\* the request is answered with an error and no document, neither update_plan
\* nor create_plan_revision is called, and the stores keep the pre-batch state.
C5_Atomic ==
    [][(/\ Answered("patch")
        /\ validate_patch_operations(req'.patch)
        /\ req'.fault # "get_plan"
        /\ req'.planId \in DOMAIN supa_plans
        /\ FirstFailure(supa_plans[req'.planId], req'.patch, 1) # 0) =>
          /\ resp'.status = 500
          /\ resp'.doc = NoDoc
          /\ calls' = <<"supabase.get_plan">>
          /\ StoresUnchanged]_vars

\* C5 witness: the second operation of a batch failed after the first had
\* applied, and the request was answered 500.
C5_Witness ==
    /\ req.kind = "patch"
    /\ req.patch = <<opTitle, opFar>>
    /\ req.fault = "none"
    /\ req.planId \in DOMAIN supa_plans
    /\ resp.status = 500
    /\ supa_plans[req.planId].v["title"] # S("Renamed")

\* C7: every stored document and every document answered to a caller passes
\* the PlanJSON validation (six fields, four lists, step kinds of the three).
C7_AllWellFormed ==
    /\ \A id \in DOMAIN local_plans : ValidPlanJSON(local_plans[id])
    /\ \A id \in DOMAIN supa_plans : ValidPlanJSON(supa_plans[id])
    /\ resp.doc # NoDoc => ValidPlanJSON(resp.doc)

\* C8: every patch request answered with success appends exactly one revision
\* holding the request's operations, with or without a messageId, and nothing
\* else appends one (so revisions and successful patch requests agree in number).
C8_RevisionPerPatch ==
    [][IF Answered("patch") /\ resp'.status = 200
       THEN revisions' = Append(revisions,
                                Revision(req'.planId, req'.messageId, req'.patch))
       ELSE revisions' = revisions]_vars

\* C9: a patch request for a plan that create persisted is not answered
\* "Plan not found" when no collaborator fails, and what it writes back is
\* what get_plan reads afterwards.
C9_SameStore ==
    [][(/\ Answered("patch")
        /\ req'.fault = "none"
        /\ req'.planId \in DOMAIN local_plans
        /\ validate_patch_operations(req'.patch)) =>
          /\ resp'.status # 404
          /\ resp'.status = 200 => local_plans'[req'.planId] = resp'.doc]_vars

NonEmptyLists(d) ==
    \A k \in ListFields : Has(d, k) /\ IsList(d.v[k]) /\ Len(d.v[k].v) > 0

C2_ErrorRaised ==
    (pstage = "done" /\ (pctx.error # "" \/ pfirst # "")) =>
        /\ presult.status = "raised"
        /\ presult.error = pctx.error
        /\ presult.error # ""
        /\ presult.doc = JNull

\* C2 witness: the error was set after the plan had been produced.
C2_Witness ==
    /\ pstage = "done"
    /\ pctx.error = "Style adaptation failed"
    /\ Truthy(pctx.plan_json)
    /\ presult.status = "raised"

\* C10: applying the style adaptation twice with the same tokens gives the
\* same content as applying it once.
C10_Idempotent == spc = "twice" => twice = once

\* an allow-list entry read token by token, "*" standing for any one token
MatchesEntry(path, entry) ==
    /\ Len(path) = Len(entry)
    /\ \A i \in 1..Len(entry) : entry[i] = "*" \/ entry[i] = path[i]

\* C12: validate_patch_path accepts a pointer only if it has as many tokens
\* as some allow-list entry and agrees with that entry on every token that is
\* not the wildcard (so /files/0/path, /files/0 and /steps/0/summary/extra are
\* rejected).
C12_OneTokenWildcard ==
    (vpc = "checked" /\ vok) => \E entry \in ALLOWED_PATHS : MatchesEntry(vpath, entry)

ListRoots == {"steps", "files", "tests", "risks"}

\* C18: validate_patch_path accepts exactly /title, /prBody and every pointer
\* of two or more tokens below /steps, /files, /tests or /risks; the empty
\* pointer and the four whole-list pointers are rejected.
C18_PrefixRule ==
    vpc = "checked" =>
        /\ vok <=> \/ vpath \in {<<"title">>, <<"prBody">>}
                   \/ Len(vpath) >= 2 /\ vpath[1] \in ListRoots
        /\ (vpath = <<>> \/ \E r \in ListRoots : vpath = <<r>>) => ~vok

\* C18 witness: a pointer two tokens deeper than the entry /steps/* was
\* accepted on the strength of the prefix /steps/.
C18_Witness ==
    /\ vpc = "checked"
    /\ vpath = <<"steps", "0", "summary", "extra">>
    /\ vok

\* the operation's path begins with the node path
StartsWithPath(path, node_path) ==
    /\ Len(path) >= Len(node_path)
    /\ SubSeq(path, 1, Len(node_path)) = node_path

\* C13: every operation of a patch answered to an ask request has a path
\* that starts with the request's nodePath; a completion holding any other
\* operation is not answered as a patch.
C13_ScopedEdits ==
    (req.kind = "ask" /\ resp.status = 200) =>
        \A i \in 1..Len(proposed.patch) :
            StartsWithPath(proposed.patch[i].path, req.nodePath)

AllBlank(s) == \A i \in 1..Len(s) : IsSpace(s[i])

\* C14: a create request whose idea is empty after trimming is answered 400;
\* the pipeline is not run, no store is written and no planId is issued.
C14_EmptyIdeaRejected ==
    [][(Answered("create") /\ AllBlank(req'.idea)) =>
          /\ resp'.status = 400
          /\ resp'.doc = NoDoc
          /\ calls' = <<>>
          /\ StoresUnchanged
          /\ issued' = issued]_vars

\* C14 witness: an idea of one space was answered 400 with no call made.
C14_Witness ==
    /\ req.kind = "create"
    /\ req.idea = <<SP>>
    /\ resp.status = 400
    /\ calls = <<>>

\* a node ran in this step
NodeStep(node) == pstage = node /\ pstage' # pstage

\* C15: whatever the intent analysis answers, the intent stage leaves error
\* unset and sets an intent whose feature and route are not blank.
C15_IntentNeverFails ==
    [][NodeStep("intent_parser") =>
          /\ pctx'.error = ""
          /\ IsObj(pctx'.intent)
          /\ Truthy(Get(pctx'.intent, "feature"))
          /\ Truthy(Get(pctx'.intent, "route"))]_vars

StageOrder == <<"intent_parser", "pattern_loader", "style_adapter", "design", "style_adaptation">>

IsNodeEntry(c) == c.fn = "node"

CalledBefore(fn, i) == \E j \in 1..(i - 1) : pcalls[j].fn = fn

\* C16: the nodes run in the order intent_parser, pattern_loader,
\* style_adapter, design, style_adaptation, each once in a finished call; the
\* synthesizer is called at most once and only after the intent analysis, a
\* pattern lookup and the style profile lookup, with intent, pattern and
\* style profile set.
C16_FixedOrder ==
    LET ns == SelectSeq(pcalls, IsNodeEntry)
    IN /\ Len(ns) <= Len(StageOrder)
       /\ \A i \in 1..Len(ns) : ns[i].arg = <<StageOrder[i]>>
       /\ pstage \in {"end", "done"} => Len(ns) = Len(StageOrder)
       /\ \A i \in 1..Len(pcalls) :
             pcalls[i].fn = "gpt5_plan" =>
                /\ CalledBefore("analyze_intent", i)
                /\ CalledBefore("get_pattern", i)
                /\ CalledBefore("get_style_profile", i)
                /\ ~CalledBefore("gpt5_plan", i)
                /\ Truthy(pctx.intent) /\ Truthy(pctx.pattern) /\ Truthy(pctx.style_profile)

\* C16 witness: a finished call in which the synthesizer was called and a
\* document returned.
C16_Witness ==
    /\ pstage = "done"
    /\ presult.status = "returned"
    /\ \E i \in 1..Len(pcalls) : pcalls[i].fn = "gpt5_plan"
    /\ pcalls[Len(pcalls)] = Entered("style_adaptation")

\* C17: a node that runs with error set changes no field of the context and
\* calls no collaborator, and the error generate_plan raises is the first one
\* that was set.
C17_HaltOnError ==
    [][/\ (pctx.error # "" /\ \E n \in 1..Len(StageOrder) : NodeStep(StageOrder[n])) =>
             /\ pctx' = pctx
             /\ Len(pcalls') = Len(pcalls) + 1
       /\ (pstage' = "done" /\ pfirst' # "") => presult'.error = pfirst']_vars

\* the in-memory template: one step of each kind, generic risks and tests
IsMinimalTemplate(pattern) ==
    LET tmpl == Get(pattern, "template")
        steps == Get(tmpl, "steps").v
    IN /\ Len(steps) = 3
       /\ \A k \in Kinds : \E i \in 1..3 : steps[i].v["kind"].v = k
       /\ Len(Get(tmpl, "risks").v) > 0
       /\ Len(Get(tmpl, "tests").v) > 0

\* C19: pattern_loader_node looks up the feature slug first, the default
\* slug only after a miss, and builds the in-memory template only after two
\* misses; it always ends with a non-empty pattern and never sets error.
C19_PatternSelection ==
    [][NodeStep("pattern_loader") =>
          LET cs == SubSeq(pcalls', Len(pcalls) + 2, Len(pcalls'))
          IN /\ pctx'.error = pctx.error
             /\ Truthy(pctx'.pattern)
             /\ Len(cs) \in {1, 2}
             /\ \A i \in 1..Len(cs) : cs[i].fn = "get_pattern"
             /\ cs[1].arg = Fmt(GetDefault(pctx.intent, "feature", S("general")))
                                \o <<"-pattern">>
             /\ Len(cs) = 2 <=> ~Truthy(cs[1].out)
             /\ Len(cs) = 2 => cs[2].arg = <<"api-search-pagination">>
             /\ IF Truthy(cs[1].out) THEN pctx'.pattern = cs[1].out
                ELSE IF Truthy(cs[2].out) THEN pctx'.pattern = cs[2].out
                ELSE IsMinimalTemplate(pctx'.pattern)]_vars

\* C19 witness: both lookups missed and the stage left the in-memory
\* template in the context.
C19_Witness ==
    /\ pstage = "style_adapter"
    /\ Len(pcalls) = 5
    /\ pcalls[4].out = JNull /\ pcalls[5].out = JNull
    /\ pcalls[5].arg = DefaultSlug
    /\ IsMinimalTemplate(pctx.pattern)

\* s without the semicolons that stand immediately before a newline
RECURSIVE DeleteSemiBeforeNewline(_, _)
DeleteSemiBeforeNewline(s, i) ==
    IF i > Len(s) THEN <<>>
    ELSE IF s[i] = SEMI /\ i < Len(s) /\ s[i + 1] = NL
         THEN DeleteSemiBeforeNewline(s, i + 1)
         ELSE <<s[i]>> \o DeleteSemiBeforeNewline(s, i + 1)

\* C20: with semicolons = false the semicolon step deletes exactly the
\* semicolons immediately followed by a newline and keeps every other
\* character; with semicolons = true it changes nothing (seen with indent =
\* spaces, where the indentation step is idle, after the quote step).
C20_SemicolonStep ==
    (spc \in {"once", "twice"} /\ tokens.indent = "spaces") =>
        once = IF tokens.semicolons
               THEN ApplyQuotes(content, tokens.quotes)
               ELSE DeleteSemiBeforeNewline(ApplyQuotes(content, tokens.quotes), 1)

\* the positions of s that open a line
LineStarts(s) == {i \in 1..(Len(s) + 1) : i = 1 \/ s[i - 1] = NL}

\* the line of s that opens at position i, without its newline
RECURSIVE LineFrom(_, _)
LineFrom(s, i) ==
    IF i > Len(s) \/ s[i] = NL THEN <<>> ELSE <<s[i]>> \o LineFrom(s, i + 1)

\* the lines of s in order, by the positions that open them
RECURSIVE LinesFrom(_, _)
LinesFrom(s, i) ==
    IF i > Len(s) + 1 THEN <<>>
    ELSE IF i \in LineStarts(s) THEN <<LineFrom(s, i)>> \o LinesFrom(s, i + 1)
    ELSE LinesFrom(s, i + 1)

LeadingSpaces(line, n) == Len(line) >= n /\ \A i \in 1..n : line[i] = SP

\* C21: with indent = tabs and indent_size = n > 0 the indentation step turns
\* the first n spaces of every line that starts with n spaces into one tab and
\* keeps the rest of the line, leaves every other line alone and keeps the
\* number of lines; with indent = spaces it changes nothing (seen with
\* semicolons = true, where the semicolon step is idle, after the quote step).
C21_IndentStep ==
    (spc \in {"once", "twice"} /\ tokens.semicolons) =>
        LET before == LinesFrom(ApplyQuotes(content, tokens.quotes), 1)
            after == LinesFrom(once, 1)
            n == tokens.indent_size
        IN IF tokens.indent = "tabs"
           THEN /\ Len(after) = Len(before)
                /\ \A i \in 1..Len(before) :
                      after[i] = IF LeadingSpaces(before[i], n)
                                 THEN <<TAB>> \o SubSeq(before[i], n + 1, Len(before[i]))
                                 ELSE before[i]
           ELSE once = ApplyQuotes(content, tokens.quotes)

\* C21 witness: a line of three spaces under indent_size 2 became a tab and
\* the third space.
C21_Witness ==
    /\ spc = "once"
    /\ tokens.indent = "tabs" /\ tokens.indent_size = 2 /\ tokens.semicolons
    /\ content = <<SP, SP, SP>>
    /\ once = <<TAB, SP>>

ListsOfPlan == {"steps", "files", "risks", "tests"}

IsListOp(operation, names, toks) ==
    /\ operation.op \in names
    /\ Len(operation.path) = 2
    /\ operation.path[1] \in ListsOfPlan
    /\ operation.path[2] \in toks

\* the operation cannot be applied to doc: an add beyond the end of the list,
\* a replace at or beyond it, or a replace or remove of "-"
OutOfRange(doc, operation) ==
    LET n == Len(doc.v[operation.path[1]].v)
    IN \/ /\ IsListOp(operation, {"add"}, DOMAIN Digits)
          /\ Digits[operation.path[2]] > n
       \/ /\ IsListOp(operation, {"replace"}, DOMAIN Digits)
          /\ Digits[operation.path[2]] >= n
       \/ IsListOp(operation, {"replace", "remove"}, {"-"})

\* C22: an add at /<list>/- passes validation and, applied alone, gives the
\* list with the value appended after the prior elements in their order (as
\* the last operation of a batch that succeeds, it leaves the value last); a
\* batch whose first operation is an add or replace beyond the list's range
\* or a replace or remove of "-" fails as a whole.
C22_AppendAndRange ==
    apc = "applied" =>
        /\ \A i \in 1..Len(abatch) :
              IsListOp(abatch[i], {"add"}, {"-"}) => validate_patch_path(abatch[i].path)
        /\ (Len(abatch) = 1 /\ IsListOp(abatch[1], {"add"}, {"-"})) =>
              /\ aout.ok
              /\ aout.doc.v[abatch[1].path[1]].v
                     = Append(adoc.v[abatch[1].path[1]].v, abatch[1].value)
              /\ \A k \in PlanFields \ {abatch[1].path[1]} : aout.doc.v[k] = adoc.v[k]
        /\ (Len(abatch) > 0 /\ IsListOp(abatch[Len(abatch)], {"add"}, {"-"}) /\ aout.ok) =>
              LET l == aout.doc.v[abatch[Len(abatch)].path[1]]
              IN IsList(l) /\ Len(l.v) > 0 /\ l.v[Len(l.v)] = abatch[Len(abatch)].value
        /\ (Len(abatch) > 0 /\ OutOfRange(adoc, abatch[1])) => ~aout.ok

\* C22 witness: a file was appended to a list of two files.
C22_Witness ==
    /\ apc = "applied"
    /\ adoc = WidePlan
    /\ abatch = <<Op("add", <<"files", "-">>, ItemFor("files"))>>
    /\ aout.ok
    /\ Len(aout.doc.v["files"].v) = 3

IsProperPrefix(p, q) == Len(p) < Len(q) /\ SubSeq(q, 1, Len(p)) = p

\* the top-level locations validate_patch_path rejects and no operation of
\* the batch writes below
UntouchedRejected(patch) ==
    {<<k>> : k \in {f \in PlanFields :
                       /\ ~validate_patch_path(<<f>>)
                       /\ \A i \in 1..Len(patch) : ~IsProperPrefix(<<f>>, patch[i].path)}}

\* C28: after a successful apply_patch every top-level location that
\* validate_patch_path rejects, and below which the batch writes nothing, is
\* still present with the value it had, also when a move or copy names it as
\* its from.
C28_OnlyAllowedLocations ==
    (apc = "applied" /\ aout.ok) =>
        \A p \in UntouchedRejected(abatch) :
            Resolve(adoc, p).ok =>
                /\ Resolve(aout.doc, p).ok
                /\ Resolve(aout.doc, p).doc = Resolve(adoc, p).doc

\* the document after both batches, one applied to the result of the other
BothApplied(first, second) ==
    apply_patch(apply_patch(SeedPlan, rreq[first].patch).doc, rreq[second].patch).doc

\* C23: when both patch requests for the plan were answered with success,
\* the stored document holds the effect of both batches, as if one request
\* had run after the other.
C23_NoLostUpdate ==
    (rpc = [i \in Requests |-> "done"] /\ rresp = [i \in Requests |-> 200]) =>
        rstore \in {BothApplied(1, 2), BothApplied(2, 1)}

\* C24: each of two interleaved generate_plan calls works on its own context:
\* a step of one call leaves the other call's intent, pattern, style profile
\* and plan (its files included) as they were, and what a call gives its
\* caller is what it gives when run alone on its idea and its collaborators'
\* answers.
C24_Independent ==
    [][\A c \in PipeCalls :
          /\ tstage'[c] = tstage[c] => tctx'[c] = tctx[c]
          /\ tstage'[c] = "done" => tres'[c] = generate_plan(TwoIdeas[c], treplies[c])]_vars

\* C24 witness: both calls are done, the first had its files rewritten by the
\* style adaptation and the second, given the same plan but the default style
\* profile, kept them.
C24_Witness ==
    /\ tstage = [c \in PipeCalls |-> "done"]
    /\ treplies[1].plan = treplies[2].plan
    /\ tres[1].status = "returned" /\ tres[2].status = "returned"
    /\ tres[1].doc.v["files"] # tres[2].doc.v["files"]
    /\ tctx[2].style_profile = DefaultStyleProfile

\* the entry has no usable value under the key: absent, null or blank
Missing(e, k) == ~Has(e, k) \/ ~Truthy(e.v[k])

StrOrMissing(e, k) == Missing(e, k) \/ IsStr(e.v[k])

\* the step an entry of the completion is to become
ExpectedStep(e) ==
    IF ~IsObj(e)
    THEN JO([kind |-> S("code"), target |-> S("src/main"),
             summary |-> IF IsStr(e) THEN e ELSE JS(<<"<repr>">>)])
    ELSE JO([kind |-> IF Missing(e, "kind") THEN S("code") ELSE e.v["kind"],
             target |-> IF ~Missing(e, "target") THEN e.v["target"]
                        ELSE IF ~Missing(e, "path") THEN e.v["path"]
                        ELSE S("src/main"),
             summary |-> IF ~Missing(e, "summary") THEN e.v["summary"]
                         ELSE IF ~Missing(e, "description") THEN e.v["description"]
                         ELSE S("Implement step")])

\* the entries of steps in the completion, <<>> when it has none
ReplySteps == IF Has(greply.v, "steps") THEN greply.v.v["steps"].v ELSE <<>>

\* C25: every step of a document gpt5_plan returns has a kind of the three,
\* a target and a summary; the steps of the completion come back with kind
\* "code", target from path or "src/main" and summary from description or
\* "Implement step" where they lacked them, a completion whose entries need
\* nothing but these defaults is returned, and one with an entry of another
\* kind is not.
C25_StepCoercion ==
    gpc = "done" =>
        /\ gout.ok =>
              /\ \A i \in 1..Len(gout.plan.v["steps"].v) :
                    LET st == gout.plan.v["steps"].v[i]
                    IN /\ st.v["kind"].v \in {<<"code">>, <<"test">>, <<"config">>}
                       /\ IsStr(st.v["target"])
                       /\ IsStr(st.v["summary"])
              /\ Len(ReplySteps) > 0 =>
                    gout.plan.v["steps"].v
                        = [i \in 1..Len(ReplySteps) |-> ExpectedStep(ReplySteps[i])]
        /\ (/\ Len(ReplySteps) > 0
            /\ \A i \in 1..Len(ReplySteps) :
                  \/ ~IsObj(ReplySteps[i])
                  \/ /\ Missing(ReplySteps[i], "kind")
                           \/ ReplySteps[i].v["kind"] \in {S("code"), S("test"), S("config")}
                     /\ \A k \in {"target", "path", "summary", "description"} :
                           StrOrMissing(ReplySteps[i], k)) => gout.ok
        /\ (\E i \in 1..Len(ReplySteps) :
               /\ IsObj(ReplySteps[i])
               /\ ~Missing(ReplySteps[i], "kind")
               /\ ReplySteps[i].v["kind"] \notin {S("code"), S("test"), S("config")}) => ~gout.ok

\* C25 witness: an entry holding only path and description came back as a
\* code step with them as target and summary.
C25_Witness ==
    /\ gpc = "done"
    /\ ReplySteps = <<JO([path |-> S("p"), description |-> S("d")])>>
    /\ gout.ok
    /\ gout.plan.v["steps"].v
           = <<JO([kind |-> S("code"), target |-> S("p"), summary |-> S("d")])>>

\* the tokens the style_adaptation stage of the call reads
StageTokens == NodeTokens(GetDefault(pctx.style_profile, "tokens", EmptyObj))

\* the stage runs on a context with a plan and no error
AdaptationRuns ==
    NodeStep("style_adaptation") /\ pctx.error = "" /\ Truthy(pctx.plan_json)

\* C26: when style adaptation runs on a plan, every file's content after the
\* stage is the adapted content of the same file before it, and the number
\* and order of files, every path, title, steps, risks, tests, prBody and
\* the rest of the context are as before; when the stage fails it leaves
\* the plan as it was.
C26_EveryFileOnlyContent ==
    [][AdaptationRuns =>
          LET before == pctx.plan_json.v
              after == pctx'.plan_json.v
          IN /\ [pctx' EXCEPT !.plan_json = pctx.plan_json, !.error = pctx.error] = pctx
             /\ pctx'.error # "" => pctx'.plan_json = pctx.plan_json
             /\ pctx'.error = "" =>
                   /\ DOMAIN after = DOMAIN before
                   /\ \A k \in DOMAIN before \ {"files"} : after[k] = before[k]
                   /\ Len(after["files"].v) = Len(before["files"].v)
                   /\ \A i \in 1..Len(before["files"].v) :
                         LET f == before["files"].v[i]
                             g == after["files"].v[i]
                         IN /\ DOMAIN g.v = DOMAIN f.v
                            /\ g.v["path"] = f.v["path"]
                            /\ g.v["content"].v = StyleAdapt(f.v["content"].v, StageTokens)]_vars

\* C26 witness: the stage has run on a plan of two files and the content of
\* the second is no longer what the design stage produced.
C26_Witness ==
    /\ pstage = "end"
    /\ pctx.error = ""
    /\ Truthy(pctx.plan_json)
    /\ Len(pctx.plan_json.v["files"].v) = 2
    /\ pctx.plan_json.v["files"].v[2].v["path"] = S("README.md")
    /\ pctx.plan_json.v["files"].v[2].v["content"] \notin {QuotedText, JNull}
    /\ pctx.plan_json.v["files"].v[1].v["path"] = S("src/b.ts")

\* the document has the six fields, something in each list and the title
\* made from the idea
CompleteFor(doc, idea) ==
    /\ IsObj(doc)
    /\ DOMAIN doc.v = {"title", "steps", "files", "risks", "tests", "prBody"}
    /\ \A k \in {"steps", "files", "risks", "tests"} : IsList(doc.v[k]) /\ Len(doc.v[k].v) > 0
    /\ \A i \in 1..Len(doc.v["steps"].v) : ValidStep(doc.v["steps"].v[i])
    /\ \A i \in 1..Len(doc.v["files"].v) : ValidFile(doc.v["files"].v[i])
    /\ doc.v["title"] = JS(<<"Development Plan: ">> \o idea)
    /\ IsStr(doc.v["prBody"])

\* C27: when generate_plan raises during a create request, in mode dynamic
\* the answer is 200 with the static fallback plan, complete, and that same
\* plan is what the request wrote to the store; in mode dynamic_strict the
\* answer is 502, no store is written and no planId is issued.
C27_NoPartialDocument ==
    [][\A raw_idea \in RawIdeas, r \in CreateReplies, stored \in BOOLEAN :
          (/\ create_development_plan(raw_idea, r, stored)
           /\ Len(Strip(raw_idea)) > 0
           /\ plan_mode # "mock"
           /\ generate_plan(Strip(raw_idea), r).status = "raised") =>
              /\ plan_mode = "dynamic" =>
                    /\ resp'.status = 200
                    /\ resp'.doc = ModelDump(FallbackPlan(Strip(raw_idea)))
                    /\ CompleteFor(resp'.doc, Strip(raw_idea))
                    /\ \A id \in DOMAIN local_plans' \ DOMAIN local_plans :
                          /\ id = resp'.planId
                          /\ local_plans'[id] = FallbackPlan(Strip(raw_idea))
                          /\ CompleteFor(local_plans'[id], Strip(raw_idea))
                    /\ \A id \in DOMAIN local_plans : local_plans'[id] = local_plans[id]
                    /\ stored => resp'.planId \in DOMAIN local_plans'
              /\ plan_mode = "dynamic_strict" =>
                    /\ resp'.status = 502
                    /\ resp'.doc = NoDoc
                    /\ StoresUnchanged
                    /\ issued' = issued]_vars

\* C27 witness: in mode dynamic a create request was answered 200 with the
\* fallback plan for its idea, and the store holds it under the planId.
C27_Witness ==
    /\ plan_mode = "dynamic"
    /\ req.kind = "create"
    /\ resp.status = 200
    /\ resp.doc = ModelDump(FallbackPlan(<<"todo app">>))
    /\ resp.planId \in DOMAIN local_plans
    /\ local_plans[resp.planId] = FallbackPlan(<<"todo app">>)

\* C27 second witness: in mode dynamic_strict a create request was answered
\* 502 and the store is empty.
C27_StrictWitness ==
    /\ plan_mode = "dynamic_strict"
    /\ req.kind = "create"
    /\ resp.status = 502
    /\ local_plans = <<>>

\* the elements of a sequence
Range(q) == {q[i] : i \in 1..Len(q)}

\* C29: every planId a create request answered with names a plan the local
\* store holds, so that a later get_plan for it finds the plan.
C29_IssuedIsPersisted ==
    \A id \in Range(issued) : id \in DOMAIN local_plans

\* C30: the list of revisions changes only in a patch request that was
\* answered 200, whose update_plan call came before create_plan_revision and
\* wrote the result of the batch, and the revision appended is that batch;
\* a patch request answered 404 or 500 writes no store and appends nothing.
C30_RevisionAfterWrite ==
    [][/\ revisions' # revisions =>
             /\ Answered("patch")
             /\ resp'.status = 200
             /\ calls' = <<"supabase.get_plan", "supabase.update_plan",
                           "supabase.create_plan_revision">>
             /\ req'.planId \in DOMAIN supa_plans
             /\ apply_patch(supa_plans[req'.planId], req'.patch).ok
             /\ supa_plans'[req'.planId]
                    = apply_patch(supa_plans[req'.planId], req'.patch).doc
             /\ revisions' = Append(revisions,
                                    [plan_id |-> req'.planId,
                                     message_id |-> req'.messageId,
                                     patch |-> req'.patch])
       /\ (Answered("patch") /\ resp'.status \in {404, 500}) =>
             /\ StoresUnchanged
             /\ "supabase.create_plan_revision" \notin Range(calls')]_vars

\* C30 witness: a patch with a messageId was answered 200, the snapshot
\* holds its result and its revision is the last one stored.
C30_Witness ==
    /\ req.kind = "patch"
    /\ req.patch = <<opTitle>>
    /\ resp.status = 200
    /\ supa_plans[req.planId] = resp.doc
    /\ resp.doc # SeedPlan
    /\ Len(revisions) > 0
    /\ revisions[Len(revisions)] = Revision(req.planId, S("m1"), req.patch)

\* C30 second witness: update_plan reported failure, the request was
\* answered 500 and there is no revision.
C30_FailedWriteWitness ==
    /\ req.kind = "patch"
    /\ req.fault = "update_plan"
    /\ Truthy(req.messageId)
    /\ calls = <<"supabase.get_plan", "supabase.update_plan">>
    /\ resp.status = 500
    /\ revisions = <<>>
    /\ supa_plans = [id \in SupaIds |-> SeedPlan]

====
